---- MODULE Spec2Model ----
(***************************************************************************)
(* Word-sense disambiguation and response normalisation of MLEX:           *)
(* GeminiWSDService (scripts/gemini_wsd_service.py) and OllamaService      *)
(* (scripts/ollama_service.py), with the sense lookups that feed them, the *)
(* sense ids of Neo4jImporter (scripts/import_data.py) and the cleaning    *)
(* loop of FastDataCleaner (scripts/fast_data_cleaner.py).                 *)
(*                                                                         *)
(* A Python str is a sequence of symbols.  A symbol is one character that  *)
(* some pattern of the code looks at (a quote, a brace, a comma, ...), or  *)
(* a maximal run of characters no pattern tells apart (a word such as      *)
(* sense_id, a run of digits such as 70, the code-fence marker).           *)
(* A Python value is a record [t, v]: t its type, v its content.           *)
(***************************************************************************)
EXTENDS Integers, Sequences, FiniteSets, TLC

\* ------------------------------------------------------------------ symbols

Q == "\""
BS == "\\"
SP == " "
NL == "\n"
\* the markdown code-fence marker, three back-quotes
FENCE == "FENCE"

\* str.strip, str.split and the regex class \s
WS == {SP, NL}

\* runs of digits, as the regex class \d+ sees them
DigitSyms == {"0", "1", "2", "30", "70", "90"}

\* JSON number tokens
NumSyms == DigitSyms \cup {"-10"}

NumVal(sym) ==
    CASE sym = "0" -> 0
      [] sym = "1" -> 1
      [] sym = "2" -> 2
      [] sym = "30" -> 30
      [] sym = "70" -> 70
      [] sym = "90" -> 90
      [] sym = "-10" -> 0 - 10

\* ------------------------------------------------------------ Python values

Str(s) == [t |-> "str", v |-> s]
Rat(n, d) == [t |-> "num", v |-> <<n, d>>]
Num(n) == Rat(n, 1)
Arr(xs) == [t |-> "arr", v |-> xs]
Obj(ps) == [t |-> "obj", v |-> ps]
None == [t |-> "none", v |-> <<>>]
\* a raised exception, as the value of the expression that raised it
Exc(kind) == [t |-> "exc", v |-> <<kind>>]

IsExc(x) == x.t = "exc"

\* ---------------------------------------------------------------- sequences

\* least j >= i with s[j] = c, or 0
IndexFrom(s, c, i) ==
    IF \E j \in i..Len(s) : s[j] = c
    THEN CHOOSE j \in i..Len(s) : s[j] = c /\ \A k \in i..(j - 1) : s[k] # c
    ELSE 0

\* str.find(c) + 1
Find(s, c) == IndexFrom(s, c, 1)

\* greatest j <= i with s[j] = c, or 0
RIndexFrom(s, c, i) ==
    IF \E j \in 1..i : s[j] = c
    THEN CHOOSE j \in 1..i : s[j] = c /\ \A k \in (j + 1)..i : s[k] # c
    ELSE 0

\* str.rfind(c) + 1
RFind(s, c) == RIndexFrom(s, c, Len(s))

\* str.count(c)
Count(s, c) == Cardinality({i \in 1..Len(s) : s[i] = c})

\* the position after the run of symbols of the set cs that starts at i
SkipIn(s, cs, i) ==
    IF i > Len(s) THEN i
    ELSE CHOOSE j \in i..(Len(s) + 1) :
             /\ j = Len(s) + 1 \/ s[j] \notin cs
             /\ \A k \in i..(j - 1) : s[k] \in cs

\* the position after the run of whitespace that starts at i
SkipWs(s, i) == SkipIn(s, WS, i)

Drop(s, n) == SubSeq(s, n + 1, Len(s))
Take(s, n) == SubSeq(s, 1, n)

LStrip(s) == Drop(s, SkipWs(s, 1) - 1)

\* s without the symbols of the set cs at its end
RStripIn(s, cs) ==
    IF \E j \in 1..Len(s) : s[j] \notin cs
    THEN Take(s, CHOOSE j \in 1..Len(s) :
                     s[j] \notin cs /\ \A k \in (j + 1)..Len(s) : s[k] \in cs)
    ELSE <<>>

RStrip(s) == RStripIn(s, WS)

\* str.strip()
Strip(s) == RStrip(LStrip(s))

RECURSIVE FlattenRange(_, _, _)
FlattenRange(ps, lo, hi) ==
    IF lo > hi THEN <<>>
    ELSE IF lo = hi THEN ps[lo]
    ELSE FlattenRange(ps, lo, (lo + hi) \div 2) \o FlattenRange(ps, (lo + hi) \div 2 + 1, hi)

\* ''.join(ps)
Flatten(ps) == FlattenRange(ps, 1, Len(ps))

\* ------------------------------------------------------------------- dicts

RECURSIVE DictIndex(_, _, _)
\* the position of key k among the pairs ps, or 0
DictIndex(ps, k, i) ==
    IF i > Len(ps) THEN 0
    ELSE IF ps[i][1] = k THEN i
    ELSE DictIndex(ps, k, i + 1)

HasKey(ps, k) == DictIndex(ps, k, 1) # 0

\* d[k] = x
DictSet(ps, k, x) ==
    LET i == DictIndex(ps, k, 1)
    IN IF i = 0 THEN Append(ps, <<k, x>>)
       ELSE [ps EXCEPT ![i] = <<k, x>>]

\* d.get(k, dflt)
DictGet(ps, k, dflt) ==
    LET i == DictIndex(ps, k, 1)
    IN IF i = 0 THEN dflt ELSE ps[i][2]

\* -------------------------------------------------------------- json.loads

PFail == [ok |-> FALSE, val |-> None, pos |-> 0]
POk(x, p) == [ok |-> TRUE, val |-> x, pos |-> p]

\* position j of the string literal whose content starts at position i comes
\* after a backslash that is not itself escaped
Escaped(s, i, j) ==
    /\ j > i
    /\ s[j - 1] = BS
    /\ Cardinality({k \in i..(j - 1) : \A m \in k..(j - 1) : s[m] = BS}) % 2 = 1

\* position j of that literal holds the backslash of an escape
EscapeAt(s, i, j) == s[j] = BS /\ ~Escaped(s, i, j)

\* position j holds the quote that closes that literal
ClosesAt(s, i, j) == s[j] = Q /\ ~Escaped(s, i, j)

\* the literal that ends at position e: a raw newline or an unknown escape is
\* a decode error
ScanStringTo(s, i, e) ==
    IF \E m \in i..(e - 1) :
           \/ s[m] = NL
           \/ EscapeAt(s, i, m) /\ s[m + 1] \notin {Q, BS, "/"}
    THEN PFail
    ELSE POk(Str(Flatten([m \in 1..(e - i) |->
                             IF EscapeAt(s, i, i + m - 1) THEN <<>> ELSE <<s[i + m - 1]>>])),
             e + 1)

\* the string literal whose opening quote precedes position i
ScanString(s, i) ==
    IF \E j \in i..Len(s) : ClosesAt(s, i, j)
    THEN ScanStringTo(s, i, CHOOSE j \in i..Len(s) :
                                ClosesAt(s, i, j) /\ \A k \in i..(j - 1) : ~ClosesAt(s, i, k))
    ELSE PFail

RECURSIVE ParseValue(_, _)
RECURSIVE ParseItems(_, _, _)
RECURSIVE ParseMembers(_, _, _)

\* the items of an array from position i on, after acc
ParseItems(s, i, acc) ==
    LET r == ParseValue(s, i)
        j == SkipWs(s, r.pos)
    IN IF ~r.ok \/ j > Len(s) \/ s[j] \notin {"]", ","} THEN PFail
       ELSE IF s[j] = "]" THEN POk(Arr(Append(acc, r.val)), j + 1)
       ELSE ParseItems(s, SkipWs(s, j + 1), Append(acc, r.val))

\* the members of an object from position i on, after acc
ParseMembers(s, i, acc) ==
    LET k == ScanString(s, i + 1)
        c == SkipWs(s, k.pos)
        r == ParseValue(s, SkipWs(s, c + 1))
        j == SkipWs(s, r.pos)
    IN IF \/ i > Len(s) \/ s[i] # Q
          \/ ~k.ok
          \/ c > Len(s) \/ s[c] # ":"
          \/ ~r.ok
          \/ j > Len(s) \/ s[j] \notin {"}", ","}
       THEN PFail
       ELSE IF s[j] = "}" THEN POk(Obj(DictSet(acc, k.val.v, r.val)), j + 1)
       ELSE ParseMembers(s, SkipWs(s, j + 1), DictSet(acc, k.val.v, r.val))

\* the array whose opening bracket precedes position j
ParseArray(s, j) ==
    IF j <= Len(s) /\ s[j] = "]" THEN POk(Arr(<<>>), j + 1)
    ELSE ParseItems(s, j, <<>>)

\* the object whose opening brace precedes position j
ParseObject(s, j) ==
    IF j <= Len(s) /\ s[j] = "}" THEN POk(Obj(<<>>), j + 1)
    ELSE ParseMembers(s, j, <<>>)

\* the JSON value that starts at position i (whitespace already skipped)
ParseValue(s, i) ==
    IF i > Len(s) THEN PFail
    ELSE CASE s[i] = Q -> ScanString(s, i + 1)
           [] s[i] \in NumSyms -> POk(Num(NumVal(s[i])), i + 1)
           [] s[i] = "null" -> POk(None, i + 1)
           [] s[i] = "[" -> ParseArray(s, SkipWs(s, i + 1))
           [] s[i] = "{" -> ParseObject(s, SkipWs(s, i + 1))
           [] OTHER -> PFail

\* json.loads(s): the value, or the JSONDecodeError
JsonLoads(s) ==
    LET r == ParseValue(s, SkipWs(s, 1))
    IN IF ~r.ok THEN Exc("JSONDecodeError")
       ELSE IF SkipWs(s, r.pos) <= Len(s) THEN Exc("JSONDecodeError")
       ELSE r.val

\* ------------------------------------------------------- code-fence removal

\* position j holds the fence marker followed by json
FenceJsonAt(s, j) == j + 1 <= Len(s) /\ s[j] = FENCE /\ s[j + 1] = "json"

\* least j >= i where the fence marker is followed by json, or 0
FenceJsonFrom(s, i) ==
    IF \E j \in i..Len(s) : FenceJsonAt(s, j)
    THEN CHOOSE j \in i..Len(s) : FenceJsonAt(s, j) /\ \A k \in i..(j - 1) : ~FenceJsonAt(s, k)
    ELSE 0

\* x.split(FENCE)[0]
UpToFence(s) ==
    LET e == Find(s, FENCE)
    IN IF e = 0 THEN s ELSE Take(s, e - 1)

\* the markdown code-block removal of OllamaService (both call sites)
OllamaStripFence(s) ==
    LET fj == FenceJsonFrom(s, 1)
        f == Find(s, FENCE)
    IN IF fj # 0 THEN Strip(UpToFence(Drop(s, fj + 1)))
       ELSE IF f # 0 THEN Strip(UpToFence(Drop(s, f)))
       ELSE s

\* str.replace(FENCE json, '')
RemoveFenceJson(s) ==
    Flatten([j \in 1..Len(s) |->
                IF FenceJsonAt(s, j) \/ (j > 1 /\ FenceJsonAt(s, j - 1)) THEN <<>> ELSE <<s[j]>>])

\* str.replace(c, '')
RemoveAll(s, c) == SelectSeq(s, LAMBDA x : x # c)

\* GeminiStripFence without the two replace calls
GeminiKeepFence(s) == Strip(s)

\* text.strip(); text.replace(...).replace(...).strip() of _parse_response
GeminiStripFence(s) == Strip(RemoveAll(RemoveFenceJson(Strip(s)), FENCE))

\* ------------------------------------------------------------------ re.sub

At(s, i) == IF i >= 1 /\ i <= Len(s) THEN s[i] ELSE "EOF"

\* the position after the run of c that starts at i
SkipRun(s, c, i) == SkipIn(s, {c}, i)

\* "index":\s*(\d+)  ->  "index": "\1"
MIndex(s, i) ==
    IF At(s, i) = Q /\ At(s, i + 1) = "index" /\ At(s, i + 2) = Q /\ At(s, i + 3) = ":"
       /\ At(s, SkipWs(s, i + 4)) \in DigitSyms
    THEN SkipWs(s, i + 4) + 1 ELSE 0
RIndex(s, i, j) == <<Q, "index", Q, ":", SP, Q, s[j - 1], Q>>

\* MParen matching no span
MParenNever(s, i) == 0

\* \([^)]*\)  ->  ''
MParen(s, i) ==
    IF At(s, i) = "(" /\ IndexFrom(s, ")", i + 1) # 0
    THEN IndexFrom(s, ")", i + 1) + 1 ELSE 0
RNothing(s, i, j) == <<>>

\* "\s*//[^\n]*  ->  "
MComment(s, i) ==
    LET k == SkipWs(s, i + 1)
    IN IF At(s, i) = Q /\ At(s, k) = "/" /\ At(s, k + 1) = "/"
       THEN (IF IndexFrom(s, NL, k + 2) = 0 THEN Len(s) + 1 ELSE IndexFrom(s, NL, k + 2))
       ELSE 0
RQuote(s, i, j) == <<Q>>

\* ;+\s*"  ->  "
MSemi(s, i) ==
    LET k == SkipWs(s, SkipRun(s, ";", i))
    IN IF At(s, i) = ";" /\ At(s, k) = Q THEN k + 1 ELSE 0

\* \.+\s*"(\s*[,}\]])  ->  "\1
MPeriod(s, i) ==
    LET k == SkipWs(s, SkipRun(s, ".", i))
        g == SkipWs(s, k + 1)
    IN IF At(s, i) = "." /\ At(s, k) = Q /\ At(s, g) \in {",", "}", "]"}
       THEN g + 1 ELSE 0
RPeriod(s, i, j) ==
    LET k == SkipWs(s, SkipRun(s, ".", i))
    IN <<Q>> \o SubSeq(s, k + 1, j - 1)

\* "\s+  ->  "
MQuoteWs(s, i) ==
    IF At(s, i) = Q /\ At(s, i + 1) \in WS THEN SkipWs(s, i + 1) ELSE 0

\* \s+"  ->  "
MWsQuote(s, i) ==
    IF At(s, i) \in WS /\ At(s, SkipWs(s, i)) = Q THEN SkipWs(s, i) + 1 ELSE 0

\* ,(\s*[}\]])  ->  \1
MTrailingComma(s, i) ==
    IF At(s, i) = "," /\ At(s, SkipWs(s, i + 1)) \in {"}", "]"}
    THEN SkipWs(s, i + 1) + 1 ELSE 0
RGroupAfterFirst(s, i, j) == SubSeq(s, i + 1, j - 1)

\* ,\s*,+  ->  ,
MDoubleComma(s, i) ==
    LET k == SkipWs(s, i + 1)
    IN IF At(s, i) = "," /\ At(s, k) = "," THEN SkipRun(s, ",", k) ELSE 0
RComma(s, i, j) == <<",">>

\* }\s*{  ->  },{
MAdjacent(s, i) ==
    IF At(s, i) = "}" /\ At(s, SkipWs(s, i + 1)) = "{" THEN SkipWs(s, i + 1) + 1 ELSE 0
RAdjacent(s, i, j) == <<"}", ",", "{">>

\* the patterns of the re.sub calls and their replacements: Match(rule, s, i) is
\* the position after the match of the rule's pattern that starts at i (0: none),
\* Replacement(rule, s, i, j) what re.sub writes for the match i..j-1
Match(rule, s, i) ==
    CASE rule = "index" -> MIndex(s, i)
      [] rule = "paren" -> MParen(s, i)
      [] rule = "comment" -> MComment(s, i)
      [] rule = "semi" -> MSemi(s, i)
      [] rule = "period" -> MPeriod(s, i)
      [] rule = "quote_ws" -> MQuoteWs(s, i)
      [] rule = "ws_quote" -> MWsQuote(s, i)
      [] rule = "trailing_comma" -> MTrailingComma(s, i)
      [] rule = "double_comma" -> MDoubleComma(s, i)
      [] rule = "adjacent" -> MAdjacent(s, i)

Replacement(rule, s, i, j) ==
    CASE rule = "index" -> RIndex(s, i, j)
      [] rule = "paren" -> RNothing(s, i, j)
      [] rule = "period" -> RPeriod(s, i, j)
      [] rule = "trailing_comma" -> RGroupAfterFirst(s, i, j)
      [] rule = "double_comma" -> RComma(s, i, j)
      [] rule = "adjacent" -> RAdjacent(s, i, j)
      [] rule \in {"comment", "semi", "quote_ws", "ws_quote"} -> RQuote(s, i, j)

\* re.sub of a rule, none of whose matches is empty
ReSub(rule, s) ==
    LET \* st is <<the position the scan is at, the output so far>>
        step(st) ==
            IF Match(rule, s, st[1]) = 0 THEN <<st[1] + 1, Append(st[2], s[st[1]])>>
            ELSE <<Match(rule, s, st[1]),
                   st[2] \o Replacement(rule, s, st[1], Match(rule, s, st[1]))>>
        RECURSIVE scan(_, _, _)
        \* st after the scan has left the positions lo..hi
        scan(lo, hi, st) ==
            IF st[1] > hi THEN st
            ELSE IF lo = hi THEN step(st)
            ELSE scan((lo + hi) \div 2 + 1, hi, scan(lo, (lo + hi) \div 2, st))
    IN scan(1, Len(s), <<1, <<>>>>)[2]

\* ' '.join(x.split()): the runs of whitespace inside x become one space each,
\* those at its ends nothing
JoinSplit(s) ==
    Flatten([j \in 1..Len(s) |->
                IF s[j] \notin WS THEN <<s[j]>>
                ELSE IF /\ j > 1 /\ s[j - 1] \notin WS
                        /\ SkipWs(s, j) <= Len(s)
                THEN <<SP>>
                ELSE <<>>])

\* the "comprehensive JSON cleaning" of query_word, steps 1 to 10
CleanDescription(s) ==
    LET s1 == ReSub("index", s)
        s2 == ReSub("paren", s1)
        s3 == ReSub("comment", s2)
        s4 == ReSub("semi", s3)
        s5 == ReSub("period", s4)
        s6 == ReSub("ws_quote", ReSub("quote_ws", s5))
        s7 == ReSub("trailing_comma", s6)
        s8 == ReSub("double_comma", s7)
        s9 == ReSub("adjacent", s8)
    IN JoinSplit(s9)

\* ------------------------------------------------------ _clean_json_for_wsd

Repeat(c, n) == [k \in 1..n |-> c]

\* the closers appended for the braces and brackets counted as unclosed
AppendClosers(s) ==
    LET ob == Count(s, "{")
        cb == Count(s, "}")
        s1 == IF ob > cb THEN s \o Repeat("}", ob - cb) ELSE s
        ok == Count(s1, "[")
        ck == Count(s1, "]")
    IN IF ok > ck THEN s1 \o Repeat("]", ok - ck) ELSE s1

\* one pass of the balance loop; st is the state before it: the position,
\* escape_next, in_string, bracket_count, brace_count, last_complete (0: -1)
BalanceStep(s, st) ==
    IF st[2] THEN <<st[1] + 1, FALSE, st[3], st[4], st[5], st[6]>>
    ELSE IF s[st[1]] = BS THEN <<st[1] + 1, TRUE, st[3], st[4], st[5], st[6]>>
    ELSE IF s[st[1]] = Q THEN <<st[1] + 1, FALSE, ~st[3], st[4], st[5], st[6]>>
    ELSE IF st[3] THEN <<st[1] + 1, FALSE, st[3], st[4], st[5], st[6]>>
    ELSE
    LET bk == st[4] + (IF s[st[1]] = "[" THEN 1 ELSE IF s[st[1]] = "]" THEN 0 - 1 ELSE 0)
        bc == IF s[st[1]] \in {"[", "]"} THEN st[5]
              ELSE st[5] + (IF s[st[1]] = "{" THEN 1 ELSE IF s[st[1]] = "}" THEN 0 - 1 ELSE 0)
    IN <<st[1] + 1, FALSE, FALSE, bk, bc,
         IF bk = 0 /\ bc = 0 /\ st[1] > 1 THEN st[1] ELSE st[6]>>

RECURSIVE BalanceScan(_, _, _, _)
\* st after the passes over the positions lo..hi
BalanceScan(s, lo, hi, st) ==
    IF st[1] > hi THEN st
    ELSE IF lo = hi THEN BalanceStep(s, st)
    ELSE BalanceScan(s, (lo + hi) \div 2 + 1, hi, BalanceScan(s, lo, (lo + hi) \div 2, st))

\* the last position (from 1) at which brackets and braces are balanced
\* outside string literals; 0 when there is none
LastComplete(s) == BalanceScan(s, 1, Len(s), <<1, FALSE, FALSE, 0, 0, 0>>)[6]

\* re.sub(r'[^}\]]*$', '', x)
StripTrailingNonClosers(s) == RStripIn(s, {c \in {s[j] : j \in 1..Len(s)} : c \notin {"}", "]"}})

CleanJsonForWsd(s) ==
    LET s1 == ReSub("trailing_comma", s)
        s2 == AppendClosers(s1)
        last == LastComplete(s2)
        s3 == IF last > 1 /\ last < Len(s2) THEN Take(s2, last) ELSE s2
    IN StripTrailingNonClosers(s3)

\* ------------------------------------------------------- Python operations

\* bool(x) is False
Falsy(x) ==
    \/ x.t = "none"
    \/ x.t = "num" /\ x.v[1] = 0
    \/ x.t \in {"str", "arr", "obj"} /\ x.v = <<>>

RECURSIVE GCD(_, _)
GCD(a, b) == IF b = 0 THEN a ELSE GCD(b, a % b)

Abs(n) == IF n < 0 THEN 0 - n ELSE n

\* the number n/d (d # 0) in lowest terms
Frac(n, d) ==
    LET g == GCD(Abs(n), Abs(d))
        sg == IF d < 0 THEN 0 - 1 ELSE 1
    IN Rat(sg * (n \div g), sg * (d \div g))

NumAdd(x, y) == Frac(x.v[1] * y.v[2] + y.v[1] * x.v[2], x.v[2] * y.v[2])
NumDiv(x, y) == Frac(x.v[1] * y.v[2], x.v[2] * y.v[1])
NumMul(x, y) == Frac(x.v[1] * y.v[1], x.v[2] * y.v[2])
NumLess(x, y) == x.v[1] * y.v[2] < y.v[1] * x.v[2]

\* float(x)
PyFloat(x) ==
    IF x.t = "num" THEN x
    ELSE IF x.t = "str" THEN
        (IF Len(Strip(x.v)) = 1 /\ Strip(x.v)[1] \in NumSyms
         THEN Num(NumVal(Strip(x.v)[1])) ELSE Exc("ValueError"))
    ELSE Exc("TypeError")

RECURSIVE NumSum(_)
\* sum(xs) of numbers
NumSum(xs) == IF xs = <<>> THEN Num(0) ELSE NumAdd(Head(xs), NumSum(Tail(xs)))

\* k in x, for a str k: "yes", "no" or "exc" (TypeError)
PyIn(k, x) ==
    IF x.t = "obj" THEN (IF HasKey(x.v, k) THEN "yes" ELSE "no")
    ELSE IF x.t = "str" THEN
        (IF \E i \in 1..Len(x.v) : <<x.v[i]>> = k THEN "yes" ELSE "no")
    ELSE IF x.t = "arr" THEN
        (IF \E i \in 1..Len(x.v) : x.v[i].t = "str" /\ x.v[i].v = k THEN "yes" ELSE "no")
    ELSE "exc"

\* the order of str: the strings that occur as confidence values, ascending
StrOrder == << <<>>, <<"hi">>, <<"lo">> >>

StrRank(s) ==
    IF \E i \in 1..Len(StrOrder) : StrOrder[i] = s
    THEN CHOOSE i \in 1..Len(StrOrder) : StrOrder[i] = s
    ELSE Len(StrOrder) + 1

\* x < y: "yes", "no" or "exc" (TypeError: unorderable types)
PyLess(x, y) ==
    IF x.t = "num" /\ y.t = "num" THEN (IF NumLess(x, y) THEN "yes" ELSE "no")
    ELSE IF x.t = "str" /\ y.t = "str"
         THEN (IF StrRank(x.v) < StrRank(y.v) THEN "yes" ELSE "no")
    ELSE "exc"

\* ----------------------------------------------------------------- senses

KSenseId == <<"sense_id">>
KDefinition == <<"definition">>
KConfidence == <<"confidence">>
KReasoning == <<"reasoning">>

\* one returned dict
Entry(sid, def, conf, reasoning) ==
    Obj(<< <<KSenseId, sid>>, <<KDefinition, def>>,
           <<KConfidence, conf>>, <<KReasoning, reasoning>> >>)

\* --------------------------------------------------------- GeminiWSDService

GeminiFallbackReasoning == <<"Unable", SP, "to", SP, "get", SP, "AI", SP, "analysis">>

\* _get_fallback_result(senses)
GetFallbackResult(senses) ==
    LET n == Len(senses)
        confidence == IF n > 0 THEN Frac(100, n) ELSE Num(0)
    IN [i \in 1..n |->
           Entry(Str(senses[i].sense_id), Str(senses[i].definition),
                 confidence, Str(GeminiFallbackReasoning))]

\* the definition of the first sense whose sense_id equals sid, or ''
CatalogDefinition(senses, sid) ==
    LET hits == {i \in 1..Len(senses) : sid.t = "str" /\ sid.v = senses[i].sense_id}
    IN IF hits = {} THEN Str(<<>>)
       ELSE Str(senses[CHOOSE i \in hits : \A j \in hits : i <= j].definition)

\* GeminiEntry without the model's definition as the second choice
GeminiEntryCatalogOnly(r, senses) ==
    IF r.t # "obj" THEN Exc("AttributeError")
    ELSE IF IsExc(PyFloat(DictGet(r.v, <<"score">>, DictGet(r.v, KConfidence, Num(0)))))
    THEN PyFloat(DictGet(r.v, <<"score">>, DictGet(r.v, KConfidence, Num(0))))
    ELSE Entry(DictGet(r.v, <<"id">>, DictGet(r.v, KSenseId, Str(<<>>))),
               CatalogDefinition(senses, DictGet(r.v, <<"id">>, DictGet(r.v, KSenseId, Str(<<>>)))),
               PyFloat(DictGet(r.v, <<"score">>, DictGet(r.v, KConfidence, Num(0)))),
               DictGet(r.v, <<"reason">>, DictGet(r.v, KReasoning, Str(<<>>))))

\* one pass of the loop of _parse_response: the dict appended for r
GeminiEntry(r, senses) ==
    IF r.t # "obj" THEN Exc("AttributeError")
    ELSE
    LET sid == DictGet(r.v, <<"id">>, DictGet(r.v, KSenseId, Str(<<>>)))
        definition == CatalogDefinition(senses, sid)
        conf == PyFloat(DictGet(r.v, <<"score">>, DictGet(r.v, KConfidence, Num(0))))
    IN IF IsExc(conf) THEN conf
       ELSE Entry(sid,
                  IF Falsy(definition) THEN DictGet(r.v, KDefinition, Str(<<>>))
                  ELSE definition,
                  conf,
                  DictGet(r.v, <<"reason">>, DictGet(r.v, KReasoning, Str(<<>>))))

\* the rescaling of the confidences to percentages of their sum
GeminiNormalize(output) ==
    LET total == NumSum([i \in 1..Len(output) |-> DictGet(output[i].v, KConfidence, None)])
    IN IF NumLess(Num(0), total)
       THEN [i \in 1..Len(output) |->
                Obj(DictSet(output[i].v, KConfidence,
                    NumMul(NumDiv(DictGet(output[i].v, KConfidence, None), total), Num(100))))]
       ELSE output

\* GeminiParseOutput giving the entries last to first
GeminiParseOutputReversed(output) ==
    IF \E i \in 1..Len(output) : IsExc(output[i])
    THEN output[CHOOSE i \in 1..Len(output) :
                   IsExc(output[i]) /\ \A j \in 1..(i - 1) : ~IsExc(output[j])]
    ELSE Arr([i \in 1..Len(output) |-> GeminiNormalize(output)[Len(output) + 1 - i]])

\* the first exception in output, or the normalised list
GeminiParseOutput(output) ==
    IF \E i \in 1..Len(output) : IsExc(output[i])
    THEN output[CHOOSE i \in 1..Len(output) :
                   IsExc(output[i]) /\ \A j \in 1..(i - 1) : ~IsExc(output[j])]
    ELSE Arr(GeminiNormalize(output))

\* _parse_response from "if not results" on
GeminiParseResults(results, senses) ==
    IF Falsy(results) THEN None
    ELSE IF results.t = "num" THEN Exc("TypeError")
    ELSE IF results.t # "arr" THEN Exc("AttributeError")
    ELSE GeminiParseOutput([i \in 1..Len(results.v) |-> GeminiEntry(results.v[i], senses)])

\* _parse_response from data.get('results', data.get('rankings', [])) on
GeminiParseData(data, senses) ==
    IF IsExc(data) THEN data
    ELSE IF data.t # "obj" THEN Exc("AttributeError")
    ELSE GeminiParseResults(
             DictGet(data.v, <<"results">>, DictGet(data.v, <<"rankings">>, Arr(<<>>))),
             senses)

\* the try block of _parse_response: the list, None, or the exception raised
GeminiParseTry(text, senses) ==
    GeminiParseData(JsonLoads(GeminiStripFence(text)), senses)

\* except Exception: return None
GeminiParseExcept(r) == IF IsExc(r) THEN None ELSE r

\* _parse_response(text, senses)
GeminiParseResponse(text, senses) ==
    GeminiParseExcept(GeminiParseTry(text, senses))

\* the outcomes of model.generate_content and of reading the response
GeminiOutcomeKinds == {"raise", "no_candidates", "finish_reason", "no_text", "ok"}

\* GeminiResultOrFallback returning an empty list where it falls back
GeminiResultOrEmpty(result, senses) ==
    IF IsExc(result) THEN [path |-> "raised", value |-> result]
    ELSE IF Falsy(result) THEN [path |-> "parse_failed", value |-> Arr(<<>>)]
    ELSE [path |-> "success", value |-> result]

\* return result if result else self._get_fallback_result(candidate_senses)
GeminiResultOrFallback(result, senses) ==
    IF IsExc(result) THEN [path |-> "raised", value |-> result]
    ELSE IF Falsy(result)
    THEN [path |-> "parse_failed", value |-> Arr(GetFallbackResult(senses))]
    ELSE [path |-> "success", value |-> result]

\* the try block of disambiguate: [path, value]; path names the return taken
GeminiDisambiguateTry(outcome, senses) ==
    IF outcome.kind = "raise" THEN [path |-> "raised", value |-> Exc("APIError")]
    ELSE IF outcome.kind = "no_candidates"
    THEN [path |-> "no_candidates", value |-> Arr(GetFallbackResult(senses))]
    ELSE IF outcome.kind = "finish_reason"
    THEN [path |-> "finish_reason", value |-> Arr(GetFallbackResult(senses))]
    ELSE IF outcome.kind = "no_text"
    THEN [path |-> "no_text", value |-> Arr(GetFallbackResult(senses))]
    ELSE GeminiResultOrFallback(GeminiParseResponse(outcome.text, senses), senses)

\* GeminiDisambiguateExcept without the except clause
GeminiDisambiguateNoExcept(r, senses) == r

\* except Exception: return self._get_fallback_result(candidate_senses)
GeminiDisambiguateExcept(r, senses) ==
    IF IsExc(r.value)
    THEN [path |-> "api_error", value |-> Arr(GetFallbackResult(senses))]
    ELSE r

\* disambiguate(word, context, candidate_senses) from the model call on
GeminiDisambiguateBody(outcome, senses) ==
    GeminiDisambiguateExcept(GeminiDisambiguateTry(outcome, senses), senses)

\* ------------------------------------------------------------ OllamaService

OllamaFallbackReasoning == <<"Default", SP, "ranking", SP, "(", "API", SP, "unavailable", ")">>
NoDefinition == <<"No", SP, "definition", SP, "provided">>
NoReasoning == <<"No", SP, "reasoning", SP, "provided">>

\* the confidence literal of _default_ranking
DefaultConfidence == 50

\* DefaultRanking listing the candidates last to first
DefaultRankingReversed(senses) ==
    [i \in 1..Len(senses) |->
        Entry(Str(senses[Len(senses) + 1 - i].sense_id),
              Str(senses[Len(senses) + 1 - i].definition),
              Num(DefaultConfidence), Str(OllamaFallbackReasoning))]

\* _default_ranking(candidate_senses)
DefaultRanking(senses) ==
    [i \in 1..Len(senses) |->
        Entry(Str(senses[i].sense_id), Str(senses[i].definition),
              Num(DefaultConfidence), Str(OllamaFallbackReasoning))]

\* SetDefault setting nothing
SetDefaultSkipped(result, k, x) == result

\* result[k] = x when k is not in result; a TypeError for what is no dict
SetDefault(result, k, x) ==
    IF IsExc(result) THEN result
    ELSE IF PyIn(k, result) = "yes" THEN result
    ELSE IF result.t = "obj" THEN Obj(DictSet(result.v, k, x))
    ELSE Exc("TypeError")

\* one pass of the validation loop: <<>> (skipped), <<result>> or an exception
OllamaValidate(result) ==
    IF PyIn(KSenseId, result) = "exc" THEN Exc("TypeError")
    ELSE IF PyIn(KSenseId, result) = "no" \/ PyIn(KConfidence, result) = "no" THEN Arr(<<>>)
    ELSE LET r == SetDefault(SetDefault(result, KDefinition, Str(NoDefinition)),
                             KReasoning, Str(NoReasoning))
         IN IF IsExc(r) THEN r ELSE Arr(<<r>>)

ConfidenceOf(x) == DictGet(x.v, KConfidence, None)

RECURSIVE InsertDescending(_, _)
\* xs (sorted) with x put after every element whose key is not less than x's
InsertDescending(xs, x) ==
    IF xs = <<>> THEN <<x>>
    ELSE IF PyLess(ConfidenceOf(Head(xs)), ConfidenceOf(x)) = "yes" THEN <<x>> \o xs
    ELSE <<Head(xs)>> \o InsertDescending(Tail(xs), x)

RECURSIVE SortDescending(_)
\* list.sort(key=..., reverse=True), which is stable
SortDescending(xs) ==
    IF xs = <<>> THEN <<>>
    ELSE InsertDescending(SortDescending(Take(xs, Len(xs) - 1)), xs[Len(xs)])

\* SortByConfidence leaving the list in the order of the payload
SortByConfidenceUnsorted(valid) ==
    IF \E i \in 1..Len(valid) : valid[i].t # "obj" THEN Exc("TypeError")
    ELSE Arr(valid)

\* valid_results.sort(key=lambda x: x['confidence'], reverse=True): the key
\* of what is no dict, and the comparison of unorderable keys, raise
SortByConfidence(valid) ==
    IF \E i \in 1..Len(valid) : valid[i].t # "obj" THEN Exc("TypeError")
    ELSE IF \E i, j \in 1..Len(valid) :
                i # j /\ PyLess(ConfidenceOf(valid[i]), ConfidenceOf(valid[j])) = "exc"
    THEN Exc("TypeError")
    ELSE Arr(SortDescending(valid))

RECURSIVE Concat(_)
Concat(xss) == IF xss = <<>> THEN <<>> ELSE Head(xss).v \o Concat(Tail(xss))

\* the outcomes of requests.post in _generate
OllamaOutcomeKinds == {"raise", "status", "ok"}

\* _generate(prompt, temperature): the text of the response, or None
OllamaGenerateText(outcome) ==
    IF outcome.kind = "ok" THEN Str(outcome.text) ELSE None

\* OllamaValidOrDefault returning valid_results even when it is empty
OllamaValidNoDefault(sorted, senses) ==
    IF IsExc(sorted) THEN [path |-> "raised", value |-> sorted]
    ELSE [path |-> "success", value |-> sorted]

\* return valid_results if valid_results else self._default_ranking(...)
OllamaValidOrDefault(sorted, senses) ==
    IF IsExc(sorted) THEN [path |-> "raised", value |-> sorted]
    ELSE IF sorted.v = <<>>
    THEN [path |-> "no_valid", value |-> Arr(DefaultRanking(senses))]
    ELSE [path |-> "success", value |-> sorted]

\* the validation loop and the sort
OllamaValidateAll(checked, senses) ==
    IF \E i \in 1..Len(checked) : IsExc(checked[i])
    THEN [path |-> "raised", value |-> Exc("TypeError")]
    ELSE OllamaValidOrDefault(SortByConfidence(Concat(checked)), senses)

\* disambiguate from results = json.loads(json_str) on
OllamaParsed(results, senses) ==
    IF IsExc(results) THEN [path |-> "raised", value |-> results]
    \* json_str begins with [, so what was parsed is a list
    ELSE IF results.t # "arr" THEN [path |-> "raised", value |-> Exc("TypeError")]
    ELSE OllamaValidateAll([i \in 1..Len(results.v) |-> OllamaValidate(results.v[i])],
                           senses)

\* disambiguate from start_idx = response.find('[') on
OllamaExtract(text, senses) ==
    IF Find(text, "[") = 0 \/ RFind(text, "]") = 0
    THEN [path |-> "no_json", value |-> Arr(DefaultRanking(senses))]
    ELSE OllamaParsed(
             JsonLoads(CleanJsonForWsd(SubSeq(text, Find(text, "["), RFind(text, "]")))),
             senses)

\* the try block of disambiguate after the prompt: [path, value]; path names
\* the return statement taken, value is the list or the exception raised
OllamaDisambiguateTry(responseText, senses) ==
    IF Falsy(responseText)
    THEN [path |-> "no_response", value |-> Arr(DefaultRanking(senses))]
    ELSE OllamaExtract(OllamaStripFence(Strip(responseText.v)), senses)

\* except json.JSONDecodeError / except Exception: return _default_ranking
OllamaDisambiguateExcept(r, senses) ==
    IF IsExc(r.value) /\ r.value.v = <<"JSONDecodeError">>
    THEN [path |-> "decode_error", value |-> Arr(DefaultRanking(senses))]
    ELSE IF IsExc(r.value)
    THEN [path |-> "exception", value |-> Arr(DefaultRanking(senses))]
    ELSE r

\* disambiguate from _generate on
OllamaDisambiguateBody(responseText, senses) ==
    OllamaDisambiguateExcept(OllamaDisambiguateTry(responseText, senses), senses)

\* ---------------------------------------------------------------- query_word

\* max_attempts
MaxAttempts == 2

\* ErrorRecord giving None in place of the record
ErrorRecordNone(msg) == None

\* {"error": msg}
ErrorRecord(msg) == Obj(<< << <<"error">>, Str(msg) >> >>)

ErrNoResponse == <<"No", SP, "response", SP, "from", SP, "Ollama", SP, "service">>
ErrInvalidFormat == <<"Invalid", SP, "response", SP, "format", SP, "from", SP, "Ollama">>
ErrParse == <<"Failed", SP, "to", SP, "parse", SP, "Ollama", SP, "response">>

\* one pass of the attempt loop of query_word, attempt counted from 0:
\* [path, done, value]; done says that the pass returned value
QueryWordAttempt(responseText, attempt) ==
    LET last == attempt = MaxAttempts - 1
    IN
    IF Falsy(responseText)
    THEN [path |-> "no_response", done |-> last, value |-> ErrorRecord(ErrNoResponse)]
    ELSE
    LET text == OllamaStripFence(Strip(responseText.v))
        startIdx == Find(text, "{")
        endIdx == RFind(text, "}")
    IN IF startIdx = 0 \/ endIdx = 0
       THEN [path |-> "no_json", done |-> last, value |-> ErrorRecord(ErrInvalidFormat)]
       ELSE
       LET wordInfo == JsonLoads(CleanDescription(SubSeq(text, startIdx, endIdx)))
       IN IF IsExc(wordInfo)
          THEN [path |-> "decode_error", done |-> last, value |-> ErrorRecord(ErrParse)]
          ELSE [path |-> "success", done |-> TRUE, value |-> wordInfo]

\* ------------------------------------------------------------ sense lookup

\* WordSense(sense_id, definition) as the accessors build it
Sense(sid, def) == [sense_id |-> sid, definition |-> def]

\* str.lower() of the words looked up
Lower(w) ==
    CASE w = "Makan" -> "makan"
      [] w = "KENA" -> "kena"
      [] OTHER -> w

\* the three mock entries the two _get_mock_senses share
SharedMockData(word, playWords) ==
    CASE word = "makan" ->
            << Sense(<<"makan", "_1">>, <<"to", SP, "eat", SP, "food">>),
               Sense(<<"makan", "_2">>, <<"to", SP, "consume", SP, "resources">>),
               Sense(<<"makan", "_3">>, <<"to", SP, "corrode", SP, "or", SP, "erode">>) >>
      [] word = "main" ->
            << Sense(<<"main", "_1">>, playWords[1]),
               Sense(<<"main", "_2">>, <<"to", SP, "perform", SP, "or", SP, "act">>),
               Sense(<<"main", "_3">>, playWords[2]) >>
      [] word = "buah" ->
            << Sense(<<"buah", "_1">>, <<"fruit">>),
               Sense(<<"buah", "_2">>,
                     <<"classifier", SP, "for", SP, "large", SP, "objects">>) >>
      [] OTHER -> <<>>

\* mock_data of Neo4jConnection._get_mock_senses in gemini_wsd_service: the
\* list under the key word, <<>> when word is no key
GeminiMockData(word) ==
    IF word = "kena"
    THEN << Sense(<<"kena", "_1">>, <<"must", SP, "or", SP, "have", SP, "to">>),
            Sense(<<"kena", "_2">>, <<"to", SP, "be", SP, "affected", SP, "by">>),
            Sense(<<"kena", "_3">>, <<"to", SP, "hit", SP, "or", SP, "strike">>) >>
    ELSE SharedMockData(word, << <<"to", SP, "play">>,
                                 <<"to", SP, "play", SP, "musical", SP, "instrument">> >>)

\* mock_data of Neo4jConnection._get_mock_senses in streamlit_app
StreamlitMockData(word) ==
    SharedMockData(word, << <<"to", SP, "play", SP, "(", "games", ")">>,
                            <<"to", SP, "play", SP, "(", "musical", SP, "instrument", ")">> >>)

\* _get_mock_senses(word) of gemini_wsd_service
GeminiGetMockSenses(word) ==
    IF GeminiMockData(Lower(word)) # <<>> THEN GeminiMockData(Lower(word))
    ELSE << Sense(<<word, "_1">>, <<"meaning", SP, "1", SP, "of", SP, word>>),
            Sense(<<word, "_2">>, <<"meaning", SP, "2", SP, "of", SP, word>>) >>

\* _get_mock_senses(word) of streamlit_app: mock_data.get(word.lower(), [])
StreamlitGetMockSenses(word) == StreamlitMockData(Lower(word))

\* what running the query and building the senses gives: the list of
\* WordSense, one for each record, or the exception of the driver
QuerySenses(outcome) ==
    IF outcome.kind = "raise" THEN Exc("ServiceUnavailable")
    ELSE Arr([i \in 1..Len(outcome.records) |->
                Sense(outcome.records[i].sense_id, outcome.records[i].definition)])

\* Neo4jConnection.get_word_senses(word) of gemini_wsd_service: the mock
\* senses when not connected, when the query raises (except Exception) and
\* when it gives no record
GetWordSenses(word, connected, outcome) ==
    IF ~connected THEN Arr(GeminiGetMockSenses(word))
    ELSE IF IsExc(QuerySenses(outcome)) THEN Arr(GeminiGetMockSenses(word))
    ELSE IF QuerySenses(outcome).v = <<>> THEN Arr(GeminiGetMockSenses(word))
    ELSE QuerySenses(outcome)

\* Neo4jConnection.get_all_senses_for_word(entry) of streamlit_app: there is
\* no try around the query
GetAllSensesForWord(entry, connected, outcome) ==
    IF ~connected THEN Arr(StreamlitGetMockSenses(entry))
    ELSE IF IsExc(QuerySenses(outcome)) THEN QuerySenses(outcome)
    ELSE IF QuerySenses(outcome).v = <<>> THEN Arr(StreamlitGetMockSenses(entry))
    ELSE QuerySenses(outcome)

\* ------------------------------------------------------------------ inputs

\* the most candidate senses of a call
MaxCands == 3
\* the most entries of a generated ranking payload
MaxEntries == 2

SenseName(i) ==
    CASE i = 1 -> "s1" [] i = 2 -> "s2" [] i = 3 -> "s3" [] i = 4 -> "s4" [] OTHER -> "s5"
CatalogText(i) ==
    CASE i = 1 -> "c1" [] i = 2 -> "c2" [] i = 3 -> "c3" [] i = 4 -> "c4" [] OTHER -> "c5"

\* WordSense(sense_id, definition)
WordSense(i) == [sense_id |-> <<SenseName(i)>>, definition |-> <<CatalogText(i)>>]

\* candidate_senses: the first n senses of the catalog
CandidateTuples == {[i \in 1..n |-> WordSense(i)] : n \in 0..MaxCands}

\* the text of JSON values
Lit(content) == <<Q>> \o content \o <<Q>>
Member(k, valueText) == <<Q, k, Q, ":">> \o valueText

\* sep.join(parts)
Join(parts, sep) ==
    Flatten([i \in 1..(2 * Len(parts) - 1) |->
                IF i % 2 = 1 THEN parts[(i + 1) \div 2] ELSE sep])

ObjText(members) == <<"{">> \o Join(members, <<",">>) \o <<"}">>
ArrText(items) == <<"[">> \o Join(items, <<",">>) \o <<"]">>

\* the shape the Gemini prompt asks for, and the shape the Ollama prompt asks for
GShape == [wrap |-> "results", idKey |-> "id", scoreKey |-> "score", reasonKey |-> "reason"]
OShape == [wrap |-> "", idKey |-> "sense_id", scoreKey |-> "confidence",
           reasonKey |-> "reasoning"]

Wrap(sh, items) ==
    IF sh.wrap = "" THEN ArrText(items)
    ELSE ObjText(<<Member(sh.wrap, ArrText(items))>>)

\* the text of one ranking entry; the definition the model writes is m
ModelDefinition == <<"m">>
EntryText(sh, sid, scoreText, withDef, reason) ==
    ObjText(<<Member(sh.idKey, Lit(<<sid>>))>>
            \o (IF withDef THEN <<Member("definition", Lit(ModelDefinition))>> ELSE <<>>)
            \o <<Member(sh.scoreKey, scoreText), Member(sh.reasonKey, Lit(reason))>>)

ModelSenseIds == {"s1", "s2", "sx"}
ModelScores == {"0", "30", "70"}

\* well-formed payloads: every sequence of up to MaxEntries entries
ValueTexts ==
    UNION {{Wrap(sh, [i \in 1..n |-> EntryText(sh, es[i][1], <<es[i][2]>>, wd, <<"ok">>)]) :
                es \in [1..n -> ModelSenseIds \X ModelScores]} :
           <<sh, wd, n>> \in {GShape, OShape} \X BOOLEAN \X (0..MaxEntries)}

\* the canonical two entries, in every spelling of the keys
AliasShapes ==
    [wrap : {"results", "rankings", ""}, idKey : {"id", "sense_id"},
     scoreKey : {"score", "confidence"}, reasonKey : {"reason", "reasoning"}]
Canonical(sh) ==
    Wrap(sh, <<EntryText(sh, "s1", <<"70">>, FALSE, <<"ok">>),
               EntryText(sh, "s2", <<"30">>, FALSE, <<"ok">>)>>)
AliasTexts == {Canonical(sh) : sh \in AliasShapes}

\* entries that deviate from what the prompt asks for
DeviantEntries(sh) ==
    { ObjText(<<Member(sh.scoreKey, <<"70">>), Member(sh.reasonKey, Lit(<<"ok">>))>>),
      ObjText(<<Member(sh.idKey, Lit(<<"s1">>)), Member(sh.reasonKey, Lit(<<"ok">>))>>),
      ObjText(<<Member(sh.idKey, Lit(<<"s1">>)), Member(sh.scoreKey, <<"70">>)>>),
      ObjText(<<Member(sh.idKey, <<"1">>), Member(sh.scoreKey, <<"70">>)>>),
      <<"1">>,
      Lit(<<"s1">>),
      <<"null">> }
    \cup {EntryText(sh, "s1", sc, FALSE, <<"ok">>) :
            sc \in {Lit(<<"hi">>), Lit(<<"lo">>), Lit(<<"70">>), <<"-10">>, <<"90">>, <<"null">>}}
    \cup {EntryText(sh, "s1", <<"70">>, TRUE, rs) :
            rs \in { <<"eats", SP, "(", "kata", SP, "kerja", ")", SP, "food">>,
                     <<"eats", SP, "food", ".">>,
                     <<"eats", ";">>,
                     <<SP, "eats", SP>>,
                     <<"a", ",", "}">>,
                     <<"a", ",", SP, "]">>,
                     <<"see", SP, "[", "1">>,
                     <<"see", SP, "{">>,
                     <<"a", BS, Q, "b">> }}

DeviantTexts ==
    UNION {{Wrap(sh, <<d>>),
            Wrap(sh, <<d, EntryText(sh, "s2", <<"30">>, FALSE, <<"ok">>)>>),
            Wrap(sh, <<EntryText(sh, "s2", <<"30">>, FALSE, <<"ok">>), d>>)} :
           <<sh, d>> \in {<<x, y>> \in {GShape, OShape} \X
                            (DeviantEntries(GShape) \cup DeviantEntries(OShape)) :
                            y \in DeviantEntries(x)}}

\* payloads that are no ranking at all
OddTexts ==
    { <<>>, <<SP>>, <<NL>>, <<"null">>, <<"1">>, Lit(<<"ok">>), <<"[", "]">>, <<"{", "}">>,
      <<"[", "1", "]">>, <<"]", SP, "[">>,
      <<"I", SP, "cannot", SP, "answer", ".">>,
      ObjText(<<Member("results", <<"[", "]">>)>>),
      ObjText(<<Member("results", <<"null">>)>>),
      ObjText(<<Member("results", <<"1">>)>>),
      ObjText(<<Member("results", Lit(<<"none">>))>>),
      ObjText(<<Member("results", ObjText(<<Member("id", Lit(<<"s1">>))>>))>>),
      ObjText(<<Member("results", <<"[", "]">>),
                Member("rankings", ArrText(<<EntryText(GShape, "s1", <<"70">>, FALSE, <<"ok">>)>>))>>),
      ObjText(<<Member("answer", Lit(<<"s1">>))>>) }

\* what a model wraps around, or cuts from, a payload
FenceJson(p) == <<FENCE, "json", NL>> \o p \o <<NL, FENCE>>
FencePlain(p) == <<FENCE, NL>> \o p \o <<NL, FENCE>>
InProse(p) == <<"Here", SP, "it", SP, "is", ":", NL>> \o p \o <<NL, "Done", ".">>
Truncations(p) == {Take(p, k) : k \in 0..(Len(p) - 1)}

\* p with a space after every comma and colon, a newline after every opener
Spaced(p) ==
    Flatten([i \in 1..Len(p) |->
                IF p[i] \in {",", ":"} THEN <<p[i], SP>>
                ELSE IF p[i] \in {"[", "{"} THEN <<p[i], NL>>
                ELSE <<p[i]>>])

\* p with a comma put before its last closer, and before its last two
TrailingComma(p) == Take(p, Len(p) - 1) \o <<",", p[Len(p)]>>

\* the payloads the decorations are applied to
FencedPayloads ==
    { Canonical(GShape), Canonical(OShape), <<>>, <<"[", "]">>,
      <<"I", SP, "cannot", SP, "answer", ".">>,
      Take(Canonical(OShape), 12),
      Canonical(OShape) \o <<NL, FENCE, NL>> \o Wrap(OShape, <<>>) }

DecoratedTexts ==
    {FenceJson(p) : p \in FencedPayloads}
    \cup {FencePlain(p) : p \in FencedPayloads}
    \cup {InProse(p) : p \in {Canonical(GShape), Canonical(OShape)}}
    \cup {InProse(FenceJson(p)) : p \in {Canonical(GShape), Canonical(OShape)}}
    \cup {Spaced(p) : p \in {Canonical(GShape), Canonical(OShape)}}
    \cup {TrailingComma(p) : p \in {Canonical(GShape), Canonical(OShape)}}
    \cup {Canonical(OShape) \o <<NL, FENCE, NL>> \o Wrap(OShape, <<>>)}

TruncatedTexts == Truncations(Canonical(GShape)) \cup Truncations(Canonical(OShape))

\* payloads whose entries all lack the sense id or the confidence
IncompleteTexts(sh) ==
    { Wrap(sh, <<ObjText(<<Member(sh.scoreKey, <<"70">>),
                           Member(sh.reasonKey, Lit(<<"ok">>))>>)>>),
      Wrap(sh, <<ObjText(<<Member(sh.idKey, Lit(<<"s1">>)),
                           Member(sh.reasonKey, Lit(<<"ok">>))>>)>>),
      Wrap(sh, <<ObjText(<<Member(sh.scoreKey, <<"70">>),
                           Member(sh.reasonKey, Lit(<<"ok">>))>>),
                 ObjText(<<Member(sh.idKey, Lit(<<"s1">>)),
                           Member(sh.reasonKey, Lit(<<"ok">>))>>)>>) }

\* arrays cut off after an inner array, with openers left unclosed: one level
\* of nesting, braces and brackets nested in each other, and a bracket
\* character inside a string value
UnclosedTexts ==
    { <<"[">> \o EntryText(OShape, "s1", <<"70">>, FALSE, <<"ok">>) \o <<",", "{">>
        \o Member("sense_id", Lit(<<"s2">>)) \o <<",">>
        \o Member("tags", ArrText(<<Lit(<<"a">>)>>)),
      <<"[", "{">> \o Member("sense_id", Lit(<<"s1">>)) \o <<",">>
        \o Member("tags", <<"[", "{">> \o Member("k", ArrText(<<Lit(<<"a">>)>>))),
      <<"[">> \o EntryText(OShape, "s1", <<"70">>, FALSE, <<"a", SP, "]">>) \o <<",", "{">>
        \o Member("sense_id", Lit(<<"s2">>)) \o <<",">>
        \o Member("tags", ArrText(<<Lit(<<"a">>)>>)) }

\* the texts a model answers a ranking prompt with
RankTexts == ValueTexts \cup AliasTexts \cup DeviantTexts \cup OddTexts
             \cup DecoratedTexts \cup TruncatedTexts
             \cup IncompleteTexts(GShape) \cup IncompleteTexts(OShape)
             \cup UnclosedTexts

\* the record the description prompt asks for, with one definition
DescText(indexText, def, syn) ==
    ObjText(<<Member("entry", Lit(<<"w">>)),
              Member("definitions",
                     ArrText(<<ObjText(<<Member("index", indexText),
                                         Member("definition", Lit(def))>>)>>)),
              Member("sinonim", Lit(syn))>>)

DescCanonical == DescText(Lit(<<"1">>), <<"d">>, <<"a", ";", SP, "b">>)

NotAWord == <<"Not", SP, "a", SP, "valid", SP, "Malay", SP, "word">>

\* well-formed descriptions
DescValueTexts ==
    {DescText(ix, def, <<"a", ";", SP, "b">>) :
        ix \in {Lit(<<"1">>), <<"1">>},
        def \in { <<"d">>,
                  <<"d", SP, "(", "kata", SP, "dasar", ")">>,
                  <<"d", ".">>,
                  <<"d", ";">>,
                  <<SP, "d", SP>>,
                  <<"d", ",", "}">>,
                  <<"d", SP, "}", SP, "{", SP, "e">> }}
    \cup { ObjText(<<Member("error", Lit(NotAWord))>>), <<"{", "}">> }

\* descriptions with the artifacts the cleaning is written for
DescArtifactTexts ==
    { ObjText(<<Member("entry", Lit(<<"w">>)) \o <<SP, "/", "/", SP, "kata", NL>>,
                Member("sinonim", Lit(<<"a">>))>>),
      ObjText(<<Member("entry", Lit(<<"w">>)), <<>>, Member("sinonim", Lit(<<"a">>))>>),
      ObjText(<<Member("definitions",
                       <<"[">> \o ObjText(<<Member("index", <<"1">>)>>) \o <<NL>>
                       \o ObjText(<<Member("index", <<"2">>)>>) \o <<"]">>)>>),
      ObjText(<<Member("entry", <<"w">>)>>),
      TrailingComma(DescCanonical),
      Spaced(DescCanonical),
      InProse(DescCanonical),
      InProse(FenceJson(DescCanonical)),
      <<>>, <<SP>>, <<"I", SP, "cannot", SP, "answer", ".">>, <<"}", SP, "{">> }
    \cup {FenceJson(p) : p \in {DescCanonical, <<>>}}
    \cup {FencePlain(p) : p \in {DescCanonical, <<>>}}

\* the objects with an error key a model answers with: the record the prompt
\* asks for, that record with a full stop, and with a second member
ErrorPayloads ==
    { ObjText(<<Member("error", Lit(NotAWord))>>),
      ObjText(<<Member("error", Lit(NotAWord \o <<".">>))>>),
      ObjText(<<Member("error", Lit(NotAWord)), Member("entry", Lit(<<"w">>))>>) }

\* the ways an error object arrives
ErrorForms(p) == {p, FenceJson(p), InProse(p)}
DescErrorTexts == UNION {ErrorForms(p) : p \in ErrorPayloads}

\* the texts a model answers a description prompt with
DescTexts == DescValueTexts \cup DescArtifactTexts \cup Truncations(DescCanonical)
             \cup DescErrorTexts

\* the most records the store returns for a word
MaxRecords == 2

\* the words looked up: keys of the mock data, in other case too, and a word
\* that is no key
LookupWords == {"makan", "Makan", "main", "buah", "kena", "KENA", "lari"}

\* how the query of a connected accessor ends
QueryOutcomes ==
    {[kind |-> "raise", records |-> <<>>]}
    \cup {[kind |-> "records", records |-> [i \in 1..n |-> WordSense(i)]] : n \in 0..MaxRecords}

NoLookup ==
    [word |-> "", connected |-> FALSE, outcome |-> [kind |-> "none", records |-> <<>>]]

\* ------------------------------------------------------------- the requests

VARIABLES
    pc,          \* where the request is: idle, generate, respond, done
    service,     \* the class whose method runs: gemini, ollama
    op,          \* the method: disambiguate, query_word
    candidates,  \* candidate_senses
    attempt,     \* the loop variable of query_word
    calls,       \* the model invocations issued so far
    response,    \* the outcome of the latest model invocation
    result,      \* the value returned to the caller
    path,        \* the return statement that returned it
    raised,      \* an exception left the method
    history,     \* how each pass over a response ended, oldest first
    lookup,      \* the word of a sense lookup and what the store did
    importer,    \* a Neo4jImporter: created_sense_ids and the calls made on it
    cleaner      \* a FastDataCleaner: its fields and the locals of run

vars == <<pc, service, op, candidates, attempt, calls, response, result, path, raised,
          history, lookup, importer, cleaner>>

NoOutcome == [kind |-> "none", text |-> <<>>]

Init ==
    /\ pc = "idle"
    /\ service = "none"
    /\ op = "none"
    /\ candidates = <<>>
    /\ attempt = 0
    /\ calls = 0
    /\ response = NoOutcome
    /\ result = None
    /\ path = "none"
    /\ raised = FALSE
    /\ history = <<>>
    /\ lookup = NoLookup
    /\ importer = [created_sense_ids |-> {}, calls |-> <<>>]
    /\ cleaner = [pc |-> "new", rows |-> <<>>, i |-> 0, cleaned_rows |-> <<>>,
                  seen_rows |-> {}, seen_entry_index |-> {},
                  stats |-> [original_rows |-> 0, final_rows |-> 0,
                             removed_empty |-> 0, removed_duplicates |-> 0,
                             cleaned_trailing_punct |-> 0, cleaned_whitespace |-> 0,
                             cleaned_quotes |-> 0, fixed_entries |-> 0]]

Enter(svc, method, senses) ==
    /\ pc = "idle"
    /\ pc' = "generate"
    /\ service' = svc
    /\ op' = method
    /\ candidates' = senses
    /\ UNCHANGED <<attempt, calls, response, result, path, raised, history, lookup, importer, cleaner>>

\* a caller calls GeminiWSDService.disambiguate
CallGeminiDisambiguate ==
    \E senses \in CandidateTuples : Enter("gemini", "disambiguate", senses)

\* a caller calls OllamaService.disambiguate
CallOllamaDisambiguate ==
    \E senses \in CandidateTuples : Enter("ollama", "disambiguate", senses)

\* a caller calls OllamaService.query_word
CallQueryWord == Enter("ollama", "query_word", <<>>)

Invoke(outcome) ==
    /\ pc = "generate"
    /\ pc' = "respond"
    /\ response' = outcome
    /\ calls' = calls + 1
    /\ UNCHANGED <<service, op, candidates, attempt, result, path, raised, history, lookup, importer, cleaner>>

\* self.model.generate_content(...) ends
GeminiGenerateContent ==
    /\ service = "gemini"
    /\ \/ \E k \in GeminiOutcomeKinds \ {"ok"} : Invoke([kind |-> k, text |-> <<>>])
       \/ \E t \in RankTexts : Invoke([kind |-> "ok", text |-> t])

\* self._generate(...) ends
OllamaGenerate ==
    /\ service = "ollama"
    /\ \/ \E k \in OllamaOutcomeKinds \ {"ok"} : Invoke([kind |-> k, text |-> <<>>])
       \/ /\ op = "disambiguate"
          /\ \E t \in RankTexts : Invoke([kind |-> "ok", text |-> t])
       \/ /\ op = "query_word"
          /\ \E t \in DescTexts : Invoke([kind |-> "ok", text |-> t])

Return(r) ==
    /\ pc' = "done"
    /\ raised' = IsExc(r.value)
    /\ result' = IF IsExc(r.value) THEN None ELSE r.value
    /\ path' = r.path
    /\ history' = Append(history, r.path)
    /\ UNCHANGED <<service, op, candidates, attempt, calls, response, lookup, importer, cleaner>>

\* the rest of GeminiWSDService.disambiguate
GeminiDisambiguateReturn ==
    /\ pc = "respond" /\ service = "gemini" /\ op = "disambiguate"
    /\ Return(GeminiDisambiguateBody(response, candidates))

\* the rest of OllamaService.disambiguate
OllamaDisambiguateReturn ==
    /\ pc = "respond" /\ service = "ollama" /\ op = "disambiguate"
    /\ Return(OllamaDisambiguateBody(OllamaGenerateText(response), candidates))

\* QueryWordStep returning only from the last pass of the loop
QueryWordStepToLast(r) ==
    IF r.done /\ attempt = MaxAttempts - 1
    THEN Return(r)
    ELSE /\ pc' = "generate"
         /\ attempt' = attempt + 1
         /\ history' = Append(history, r.path)
         /\ UNCHANGED <<service, op, candidates, calls, response, result, path, raised,
                        lookup, importer, cleaner>>

\* the end of one pass of the loop of query_word: return, or the next attempt
QueryWordStep(r) ==
    IF r.done
    THEN Return(r)
    ELSE /\ pc' = "generate"
         /\ attempt' = attempt + 1
         /\ history' = Append(history, r.path)
         /\ UNCHANGED <<service, op, candidates, calls, response, result, path, raised,
                        lookup, importer, cleaner>>

\* the rest of one pass of the loop of OllamaService.query_word
QueryWordPass ==
    /\ pc = "respond" /\ service = "ollama" /\ op = "query_word"
    /\ QueryWordStep(QueryWordAttempt(OllamaGenerateText(response), attempt))

\* a sense lookup, from the call to the return: r is what the accessor gives
Lookup(accessor, word, connected, outcome, r) ==
    /\ pc = "idle"
    /\ pc' = "done"
    /\ service' = accessor
    /\ op' = "lookup"
    /\ lookup' = [word |-> word, connected |-> connected,
                  outcome |-> IF connected THEN outcome ELSE NoLookup.outcome]
    /\ raised' = IsExc(r)
    /\ result' = IF IsExc(r) THEN None ELSE r
    /\ path' = IF IsExc(r) THEN "raised" ELSE "returned"
    /\ UNCHANGED <<candidates, attempt, calls, response, history, importer, cleaner>>

\* a caller calls Neo4jConnection.get_word_senses of gemini_wsd_service
GeminiGetWordSenses ==
    \E word \in LookupWords, connected \in BOOLEAN, outcome \in QueryOutcomes :
        Lookup("gemini", word, connected, outcome, GetWordSenses(word, connected, outcome))

\* a caller calls Neo4jConnection.get_all_senses_for_word of streamlit_app
StreamlitGetAllSensesForWord ==
    \E word \in LookupWords, connected \in BOOLEAN, outcome \in QueryOutcomes :
        Lookup("streamlit", word, connected, outcome,
               GetAllSensesForWord(word, connected, outcome))

Next ==
    \/ GeminiGetWordSenses
    \/ StreamlitGetAllSensesForWord
    \/ CallGeminiDisambiguate
    \/ CallOllamaDisambiguate
    \/ CallQueryWord
    \/ GeminiGenerateContent
    \/ OllamaGenerate
    \/ GeminiDisambiguateReturn
    \/ OllamaDisambiguateReturn
    \/ QueryWordPass

Spec == Init /\ [][Next]_vars

\* ------------------------------------------------------------------ claims

\* the list the running service returns when it gives up
FallbackList ==
    IF service = "gemini" THEN Arr(GetFallbackResult(candidates))
    ELSE Arr(DefaultRanking(candidates))

\* what the try block of the running disambiguate call ended with
TryOutcome ==
    IF service = "gemini" THEN GeminiDisambiguateTry(response, candidates)
    ELSE OllamaDisambiguateTry(OllamaGenerateText(response), candidates)

SenseIdOf(x) == DictGet(x.v, KSenseId, None)
DefinitionOf(x) == DictGet(x.v, KDefinition, None)

\* the shape the prompt of the running service asks for
OwnShape == IF service = "gemini" THEN GShape ELSE OShape

\* C1: a call of disambiguate, of either service, with a non-empty candidate
\* tuple returns a non-empty list, whatever the outcome of the model call
\* (exception, no response, refusal, malformed text, well-formed text).
C1_NonEmptyResult ==
    pc = "done" /\ op = "disambiguate" /\ candidates # <<>>
        => result.t = "arr" /\ result.v # <<>>

\* a model answer without one usable entry ended in a list as long as the
\* non-empty candidate tuple
C1_Witness ==
    /\ pc = "done" /\ op = "disambiguate" /\ candidates # <<>>
    /\ service = "ollama" /\ path = "no_valid"
    /\ result.t = "arr" /\ Len(result.v) = Len(candidates)

\* C2: disambiguate never raises to its caller: every path on which the call
\* fails (exception of the model call, no or refused response, no JSON found,
\* JSON that does not parse, an exception raised by a payload of unexpected
\* shape) returns the fallback list of the service.
C2_NeverRaises ==
    pc = "done" /\ op = "disambiguate" =>
        /\ ~raised
        /\ path # "success" => result = FallbackList
        /\ IsExc(TryOutcome.value) => result = FallbackList

\* an entry that is no object raised a TypeError inside OllamaService.disambiguate
\* and the caller got the fallback list
C2_Witness ==
    /\ pc = "done" /\ op = "disambiguate" /\ service = "ollama"
    /\ TryOutcome.value = Exc("TypeError")
    /\ ~raised /\ result = FallbackList /\ candidates # <<>>

AllNumeric(xs) == \A i \in 1..Len(xs) : ConfidenceOf(xs[i]).t = "num"
ConfidenceSum(xs) == NumSum([i \in 1..Len(xs) |-> ConfidenceOf(xs[i])])

\* C3: on a successful call of disambiguate whose confidences have a sum
\* greater than 0, the confidences of the returned list sum to 100, whichever
\* service handled the call.  (The sum of the returned confidences is greater
\* than 0 exactly when the sum of the parsed ones is.)
C3_SumsTo100 ==
    /\ pc = "done" /\ op = "disambiguate" /\ path = "success" /\ candidates # <<>>
    /\ AllNumeric(result.v) /\ NumLess(Num(0), ConfidenceSum(result.v))
    => ConfidenceSum(result.v) = Num(100)

\* C4: whenever disambiguate falls back for N >= 1 candidates, the returned
\* list has N entries and every confidence is 100/N, for _get_fallback_result
\* and for _default_ranking.
C4_FallbackUniform ==
    pc = "done" /\ op = "disambiguate" /\ path # "success" /\ Len(candidates) >= 1
        => /\ Len(result.v) = Len(candidates)
           /\ \A i \in 1..Len(result.v) :
                  ConfidenceOf(result.v[i]) = Frac(100, Len(candidates))

\* C5: on a successful call of disambiguate every returned entry whose
\* sense_id is that of a candidate carries that candidate's definition.
C5_CatalogPrecedence ==
    pc = "done" /\ op = "disambiguate" /\ path = "success" /\ candidates # <<>>
        => \A i \in 1..Len(result.v) : \A j \in 1..Len(candidates) :
               SenseIdOf(result.v[i]) = Str(candidates[j].sense_id)
                   => DefinitionOf(result.v[i]) = Str(candidates[j].definition)

\* payloads of complete entries that carry the definition m, one entry at
\* least for the id sx, which no candidate has
UnknownIdTexts(sh) ==
    UNION {{Wrap(sh, [i \in 1..n |-> EntryText(sh, es[i][1], <<es[i][2]>>, TRUE, <<"ok">>)]) :
                es \in {e \in [1..n -> ModelSenseIds \X ModelScores] :
                          \E i \in 1..n : e[i][1] = "sx"}} :
           n \in 1..MaxEntries}
GeminiUnknownIdTexts == UnknownIdTexts(GShape)
OllamaUnknownIdTexts == UnknownIdTexts(OShape)

\* the returned entries for the id sx that carry the model's definition
PassedThrough ==
    {i \in 1..Len(result.v) :
        SenseIdOf(result.v[i]) = Str(<<"sx">>) /\ DefinitionOf(result.v[i]) = Str(ModelDefinition)}

\* C6: an entry of the model for a sense_id that no candidate has is in the
\* successful result with the definition the model wrote: none is dropped and
\* the call does not fall back.
C6_UnknownIdPassThrough ==
    /\ pc = "done" /\ op = "disambiguate" /\ response.kind = "ok" /\ candidates # <<>>
    /\ response.text \in (IF service = "gemini" THEN GeminiUnknownIdTexts
                          ELSE OllamaUnknownIdTexts)
    => path = "success" /\ Cardinality(PassedThrough) = Count(response.text, "sx")

\* GeminiWSDService returned two entries, one for the unknown id
C6_Witness ==
    /\ pc = "done" /\ op = "disambiguate" /\ service = "gemini" /\ candidates # <<>>
    /\ response.text \in GeminiUnknownIdTexts
    /\ path = "success" /\ Len(result.v) = 2 /\ Cardinality(PassedThrough) = 1

\* p cut so that only closing brackets and braces are missing
ClosersCut(p) ==
    {Take(p, k) : k \in {j \in 1..(Len(p) - 1) :
                           \A m \in (j + 1)..Len(p) : p[m] \in {"]", "}"}}}

\* C7: a ranking payload whose trailing closing brackets and braces are cut
\* off (also when no closing bracket is left) is repaired and parsed, and
\* disambiguate returns its entries as a successful result.
C7_TruncationRepair ==
    /\ pc = "done" /\ op = "disambiguate" /\ response.kind = "ok" /\ candidates # <<>>
    /\ response.text \in ClosersCut(Canonical(OwnShape))
    => /\ path = "success"
       /\ \E i \in 1..Len(result.v) : SenseIdOf(result.v[i]) = Str(<<"s1">>)

\* C8: the repairs do not change well-formed JSON: query_word returns what
\* json.loads makes of a well-formed object, and _clean_json_for_wsd leaves
\* the value of a well-formed array as it is.
C8_RepairKeepsValidJson ==
    /\ pc = "done" /\ op = "query_word" /\ response.kind = "ok"
           /\ JsonLoads(response.text).t = "obj"
       => result = JsonLoads(response.text)
    /\ pc = "done" /\ op = "disambiguate" /\ service = "ollama" /\ response.kind = "ok"
           /\ candidates # <<>> /\ JsonLoads(response.text).t = "arr"
       => JsonLoads(CleanJsonForWsd(response.text)) = JsonLoads(response.text)

\* the payloads P of the fence-wrapped responses
FencePayloads == FencedPayloads \cup {DescCanonical}

\* a pass over the latest response has ended
Processed == pc = "done" \/ (pc = "generate" /\ history # <<>>)

\* how the pass of the running method over the response text p ends: whether
\* it returns, and what
PassOn(p) ==
    IF op = "query_word"
    THEN [done |-> QueryWordAttempt(OllamaGenerateText([kind |-> "ok", text |-> p]),
                                    Len(history) - 1).done,
          value |-> QueryWordAttempt(OllamaGenerateText([kind |-> "ok", text |-> p]),
                                     Len(history) - 1).value]
    ELSE IF service = "gemini"
    THEN [done |-> TRUE,
          value |-> GeminiDisambiguateBody([kind |-> "ok", text |-> p], candidates).value]
    ELSE [done |-> TRUE,
          value |-> OllamaDisambiguateBody(OllamaGenerateText([kind |-> "ok", text |-> p]),
                                           candidates).value]

\* the pass over the fence-wrapped p ended as the pass over p ends
SameAsUnfenced(p) ==
    /\ (pc = "done") = PassOn(p).done
    /\ pc = "done" => result = PassOn(p).value

\* the latest pass was over p inside a code fence
Fenced(p) ==
    /\ Processed /\ response.kind = "ok"
    /\ op = "disambiguate" => candidates # <<>>
    /\ response.text \in {FenceJson(p), FencePlain(p)}

\* C9 as stated: for any payload text P, the response that is P inside a code
\* fence gives the result that the response P gives.
C9_FenceAnyPayload ==
    \A p \in FencePayloads : Fenced(p) => SameAsUnfenced(p)

\* C9: for any non-empty payload text P without a code-fence marker in it,
\* the response that is P inside a code fence (with or without json after the
\* opening marker) gives the result that the response P gives.
C9_FenceStripping ==
    \A p \in FencePayloads :
        Fenced(p) /\ p # <<>> /\ Count(p, FENCE) = 0 => SameAsUnfenced(p)

\* GeminiWSDService ranked from a fenced payload
C9_Witness ==
    /\ pc = "done" /\ service = "gemini" /\ candidates # <<>>
    /\ response.text = FenceJson(Canonical(GShape))
    /\ path = "success" /\ Len(result.v) = 2

\* the text of the first response did not parse as JSON
FirstParseFailed ==
    /\ history # <<>>
    /\ \/ history[1] = "decode_error"
       \/ /\ service = "gemini" /\ history[1] = "parse_failed"
          /\ IsExc(JsonLoads(GeminiStripFence(response.text)))

\* C10: when the first model output does not parse as JSON, disambiguate as
\* well as query_word run exactly one more cycle, and fall back only when that
\* one fails too.
C10_RetryOnce ==
    /\ pc = "done" /\ FirstParseFailed
    /\ op = "disambiguate" => candidates # <<>>
    => calls = 2 /\ Len(history) = 2

\* the latest pass of the attempt loop of query_word was over the response
QueryWordProcessed == op = "query_word" /\ Processed

\* C11: a call of disambiguate or query_word issues at most two model
\* invocations, each one only after the pass over the response of the one before
\* has ended, and none after a pass that parsed its response.
C11_AtMostTwoInvocations ==
    /\ calls <= 2
    /\ calls = Len(history) + (IF pc = "respond" THEN 1 ELSE 0)
    /\ \A i \in 1..Len(history) :
          history[i] = "success" => i = Len(history) /\ pc = "done"

\* query_word parsed the response of its second invocation
C11_Witness ==
    /\ pc = "done" /\ op = "query_word" /\ calls = 2
    /\ history = <<"decode_error", "success">>

\* the passes that end without a parse having been tried: no response, the
\* model call failed or was refused, no JSON container in the text
NotParsePaths ==
    {"no_response", "no_json", "api_error", "no_candidates", "finish_reason", "no_text"}

\* C12: when the first model invocation gives no response, fails, is refused
\* or gives text without a JSON container, the request ends with that one
\* invocation.
C12_OnlyParseFailuresRetried ==
    /\ history # <<>> /\ history[1] \in NotParsePaths
    /\ op = "disambiguate" => candidates # <<>>
    => calls = 1

C14_ErrorRecordUnchanged ==
    \A p \in ErrorPayloads :
        QueryWordProcessed /\ response.kind = "ok" /\ response.text \in ErrorForms(p)
        => pc = "done" /\ result = JsonLoads(p)

\* the lookup found nothing in the store: not connected, the query raised, or
\* no record for the word
NothingFound ==
    \/ ~lookup.connected
    \/ lookup.outcome.kind = "raise"
    \/ lookup.outcome.kind = "records" /\ lookup.outcome.records = <<>>

\* C15: a sense lookup, by either accessor, that finds nothing in the store
\* raises nothing and returns at least 2 senses.
C15_LookupNeverEmpty ==
    pc = "done" /\ op = "lookup" /\ NothingFound
    => ~raised /\ result.t = "arr" /\ Len(result.v) >= 2

\* a ranking call returned, after a model response, for some candidates
RankedFromResponse ==
    /\ pc = "done" /\ op = "disambiguate" /\ response.kind = "ok"
    /\ candidates # <<>>

\* C16: every entry of every list disambiguate returns has a confidence from
\* 0 to 100, whatever numbers the model gave as scores.
C16_ConfidenceInRange ==
    pc = "done" /\ op = "disambiguate" /\ candidates # <<>> /\ AllNumeric(result.v)
    => \A i \in 1..Len(result.v) :
          /\ ~NumLess(ConfidenceOf(result.v[i]), Num(0))
          /\ ~NumLess(Num(100), ConfidenceOf(result.v[i]))

\* entries with the score 0, and entries without a score
ZeroEntries(sh) ==
    {EntryText(sh, sid, <<"0">>, FALSE, <<"ok">>) : sid \in ModelSenseIds}
    \cup {ObjText(<<Member(sh.idKey, Lit(<<"s1">>)), Member(sh.reasonKey, Lit(<<"ok">>))>>)}

\* payloads that parse and whose scores, where there are any, are all 0
ZeroSumTexts(sh) ==
    {Wrap(sh, <<e>>) : e \in ZeroEntries(sh)}
    \cup {Wrap(sh, <<EntryText(sh, "s1", <<"0">>, FALSE, <<"ok">>),
                      EntryText(sh, "s2", <<"0">>, FALSE, <<"ok">>)>>)}

\* C17: when the payload parses and its confidences sum to 0, disambiguate
\* returns the uniform fallback, one entry for each of the N candidates with
\* the confidence 100/N, and not a list of zeros.
C17_ZeroSumFallsBack ==
    RankedFromResponse /\ response.text \in ZeroSumTexts(OwnShape)
    => /\ path # "success"
       /\ Len(result.v) = Len(candidates)
       /\ \A i \in 1..Len(result.v) :
             ConfidenceOf(result.v[i]) = Frac(100, Len(candidates))

\* an entry without a sense id, and one without a confidence
PartialEntries(sh) ==
    { ObjText(<<Member(sh.scoreKey, <<"70">>), Member(sh.reasonKey, Lit(<<"ok">>))>>),
      ObjText(<<Member(sh.idKey, Lit(<<"s1">>)), Member(sh.reasonKey, Lit(<<"ok">>))>>) }

\* payloads of one such entry and the complete entry for s2, in either order
PartialTexts(sh) ==
    UNION {{Wrap(sh, <<d, EntryText(sh, "s2", <<"30">>, FALSE, <<"ok">>)>>),
            Wrap(sh, <<EntryText(sh, "s2", <<"30">>, FALSE, <<"ok">>), d>>)} :
           d \in PartialEntries(sh)}

\* C18: of a payload with an entry that lacks its sense id or its confidence
\* and a complete entry, disambiguate returns the complete entry and not the
\* other one.
C18_PartialEntriesDropped ==
    RankedFromResponse /\ response.text \in PartialTexts(OwnShape)
    => /\ path = "success"
       /\ Len(result.v) = 1
       /\ SenseIdOf(result.v[1]) = Str(<<"s2">>)

\* the canonical payload under an array key, in every spelling of the keys
KeyedAliasTexts == {Canonical(sh) : sh \in {x \in AliasShapes : x.wrap # ""}}

\* what the running service returns for the model text p
ResultFor(p) ==
    IF service = "gemini"
    THEN GeminiDisambiguateBody([kind |-> "ok", text |-> p], candidates).value
    ELSE OllamaDisambiguateBody(OllamaGenerateText([kind |-> "ok", text |-> p]),
                                candidates).value

\* C19: disambiguate, of either service, succeeds on the canonical payload
\* under results or rankings with id or sense_id, score or confidence, reason
\* or reasoning, and returns for every spelling what it returns for the
\* {results, id, score, reason} one.
C19_AliasAcceptance ==
    RankedFromResponse /\ response.text \in KeyedAliasTexts
    => path = "success" /\ result = ResultFor(Canonical(GShape))

\* the array of the payload as _parse_response reads it
GeminiPayloadEntries ==
    DictGet(JsonLoads(GeminiStripFence(response.text)).v, <<"results">>,
            DictGet(JsonLoads(GeminiStripFence(response.text)).v, <<"rankings">>,
                    Arr(<<>>))).v

\* the sense id and the reason of the payload entry r, as it reads them
PayloadId(r) == DictGet(r.v, <<"id">>, DictGet(r.v, KSenseId, Str(<<>>)))
PayloadReason(r) == DictGet(r.v, <<"reason">>, DictGet(r.v, KReasoning, Str(<<>>)))

\* C20: the list GeminiWSDService makes of a payload has the entries in the
\* order of the payload: the i-th entry returned has the sense id and the
\* reason of the i-th entry of the model's array.
C20_ModelOrderKept ==
    RankedFromResponse /\ service = "gemini" /\ path = "success"
    => /\ Len(result.v) = Len(GeminiPayloadEntries)
       /\ \A i \in 1..Len(result.v) :
             /\ SenseIdOf(result.v[i]) = PayloadId(GeminiPayloadEntries[i])
             /\ DictGet(result.v[i].v, KReasoning, None)
                  = PayloadReason(GeminiPayloadEntries[i])

\* the model ranked s2 first with the lower score, and so it is returned
C20_Witness ==
    /\ RankedFromResponse /\ service = "gemini" /\ path = "success"
    /\ Len(candidates) = 2 /\ Len(result.v) = 2
    /\ SenseIdOf(result.v[1]) = Str(<<"s2">>) /\ ConfidenceOf(result.v[1]) = Num(30)
    /\ SenseIdOf(result.v[2]) = Str(<<"s1">>) /\ ConfidenceOf(result.v[2]) = Num(70)

FallbackReasoning ==
    IF service = "gemini" THEN Str(GeminiFallbackReasoning)
    ELSE Str(OllamaFallbackReasoning)

\* C22: the fallback ranking is determined by the candidates alone: whatever
\* made disambiguate fall back, the list is the one list the fallback makes of
\* the candidates; its i-th entry has the sense_id and the definition of the
\* i-th candidate, and every entry has the same, fixed, reasoning text.
C22_FallbackDeterministic ==
    pc = "done" /\ op = "disambiguate" /\ path # "success"
    => /\ result = FallbackList
       /\ Len(result.v) = Len(candidates)
       /\ \A i \in 1..Len(result.v) :
             /\ SenseIdOf(result.v[i]) = Str(candidates[i].sense_id)
             /\ DefinitionOf(result.v[i]) = Str(candidates[i].definition)
             /\ DictGet(result.v[i].v, KReasoning, None) = FallbackReasoning

\* OllamaService fell back for three candidates after an unparsable response
C22_Witness ==
    /\ pc = "done" /\ op = "disambiguate" /\ service = "ollama"
    /\ path = "decode_error" /\ Len(candidates) = 3 /\ Len(result.v) = 3
    /\ SenseIdOf(result.v[3]) = Str(<<"s3">>)
    /\ DefinitionOf(result.v[3]) = Str(<<"c3">>)

\* payloads that parse and have no array of entries, or an empty one
NoEntryTexts ==
    { <<"{", "}">>, ObjText(<<Member("answer", Lit(<<"s1">>))>>),
      Wrap(GShape, <<>>), Wrap(OShape, <<>>),
      ObjText(<<Member("rankings", <<"[", "]">>)>>) }

\* the response is a payload that parses and from which the running service
\* gets no entry: there is no array or an empty one, or, where the service
\* drops incomplete entries (OllamaService), every entry is incomplete
NoUsableEntry ==
    \/ response.text \in NoEntryTexts
    \/ service = "ollama" /\ response.text \in IncompleteTexts(OShape)

\* C23: when the payload parses and gives no usable entry, disambiguate
\* returns the fallback ranking over the candidates, and not an empty list.
C23_NoUsableEntryFallsBack ==
    RankedFromResponse /\ NoUsableEntry
    => /\ path # "success"
       /\ result = FallbackList
       /\ Len(result.v) = Len(candidates)

\* GeminiWSDService fell back on {"results":[]}
C23_Witness ==
    /\ RankedFromResponse /\ service = "gemini"
    /\ response.text = Wrap(GShape, <<>>)
    /\ path = "parse_failed" /\ Len(result.v) = Len(candidates)

\* one step of the scan of s for nesting, with string literals and escapes
\* tracked: st is the position, escape pending, inside a string, the openers
\* not yet closed (innermost last), and whether every closer so far matched
NestStep(s, st) ==
    CASE st[2] -> <<st[1] + 1, FALSE, st[3], st[4], st[5]>>
      [] ~st[2] /\ s[st[1]] = BS -> <<st[1] + 1, TRUE, st[3], st[4], st[5]>>
      [] ~st[2] /\ s[st[1]] = Q -> <<st[1] + 1, FALSE, ~st[3], st[4], st[5]>>
      [] ~st[2] /\ s[st[1]] \notin {BS, Q} /\ ~st[3] /\ s[st[1]] \in {"[", "{"} ->
            <<st[1] + 1, FALSE, FALSE, Append(st[4], s[st[1]]), st[5]>>
      [] ~st[2] /\ s[st[1]] \notin {BS, Q} /\ ~st[3] /\ s[st[1]] \in {"]", "}"} ->
            IF st[4] # <<>> /\ st[4][Len(st[4])] = (IF s[st[1]] = "]" THEN "[" ELSE "{")
            THEN <<st[1] + 1, FALSE, FALSE, Take(st[4], Len(st[4]) - 1), st[5]>>
            ELSE <<st[1] + 1, FALSE, FALSE, st[4], FALSE>>
      [] OTHER -> <<st[1] + 1, FALSE, st[3], st[4], st[5]>>

RECURSIVE NestScan(_, _, _, _)
NestScan(s, lo, hi, st) ==
    IF st[1] > hi THEN st
    ELSE IF lo = hi THEN NestStep(s, st)
    ELSE NestScan(s, (lo + hi) \div 2 + 1, hi, NestScan(s, lo, (lo + hi) \div 2, st))

Nesting(s) == NestScan(s, 1, Len(s), <<1, FALSE, FALSE, <<>>, TRUE>>)

\* s ends with openers left unclosed: every closer matched, some opener open
EndsUnclosed(s) == s # <<>> /\ Nesting(s)[5] /\ Nesting(s)[4] # <<>>

\* every bracket and brace opened outside a string literal is closed, in
\* matching nesting order
WellNested(s) == s = <<>> \/ (Nesting(s)[5] /\ Nesting(s)[4] = <<>>)

\* json_str as OllamaService.disambiguate hands it to _clean_json_for_wsd
WsdJsonStr ==
    SubSeq(OllamaStripFence(Strip(response.text)),
           Find(OllamaStripFence(Strip(response.text)), "["),
           RFind(OllamaStripFence(Strip(response.text)), "]"))

\* OllamaService.disambiguate called _clean_json_for_wsd on WsdJsonStr
WsdCleaned ==
    /\ RankedFromResponse /\ service = "ollama"
    /\ Find(OllamaStripFence(Strip(response.text)), "[") # 0
    /\ RFind(OllamaStripFence(Strip(response.text)), "]") # 0

\* C24: of a text that ends with brackets or braces left unclosed,
\* _clean_json_for_wsd makes a text in which every bracket and brace opened
\* outside a string literal is closed in matching nesting order.
C24_BalancePass ==
    WsdCleaned /\ EndsUnclosed(WsdJsonStr) => WellNested(CleanJsonForWsd(WsdJsonStr))

\* a reasoning text with a parenthetical span in it
ParenReason == <<"eats", SP, "(", "kata", SP, "kerja", ")", SP, "food">>

\* ranking payloads whose entry for s1 has that reasoning
ParenTexts(sh) ==
    { Wrap(sh, <<EntryText(sh, "s1", <<"70">>, TRUE, ParenReason)>>),
      Wrap(sh, <<EntryText(sh, "s1", <<"70">>, TRUE, ParenReason),
                 EntryText(sh, "s2", <<"30">>, FALSE, <<"ok">>)>>),
      Wrap(sh, <<EntryText(sh, "s2", <<"30">>, FALSE, <<"ok">>),
                 EntryText(sh, "s1", <<"70">>, TRUE, ParenReason)>>) }

\* disambiguate returned for such a payload
RankedParen == RankedFromResponse /\ response.text \in ParenTexts(OwnShape)

\* the reasoning texts returned for s1
ReasoningsOfS1 ==
    {DictGet(result.v[i].v, KReasoning, None) :
        i \in {k \in 1..Len(result.v) : SenseIdOf(result.v[k]) = Str(<<"s1">>)}}

\* query_word returned for the description whose definition is d (kata dasar)
DescribedParen ==
    /\ pc = "done" /\ op = "query_word" /\ path = "success"
    /\ response.text \in {DescText(ix, <<"d", SP, "(", "kata", SP, "dasar", ")">>,
                                   <<"a", ";", SP, "b">>) : ix \in {Lit(<<"1">>), <<"1">>}}

\* the text of the first definition of the description returned
FirstDefinition ==
    DictGet(DictGet(result.v, <<"definitions">>, None).v[1].v, KDefinition, None)

DeclinedPaths == {"no_candidates", "finish_reason", "no_text"}

\* what disambiguate returns for the candidates when the call itself raises
TransportErrorResult == GeminiDisambiguateBody([kind |-> "raise", text |-> <<>>], candidates).value

\* C26: when the model declined to answer (no candidates, a finish reason
\* other than STOP, no readable text), GeminiWSDService.disambiguate returns
\* a value other than the one it returns for the same candidates when the
\* call raised.
C26_DeclinedDiffersFromTransportError ==
    pc = "done" /\ service = "gemini" /\ op = "disambiguate" /\ path \in DeclinedPaths
    => result # TransportErrorResult

\* ------------------------------------------------------------ Neo4jImporter

\* entry, index and the ids are plain strings here: the importer only joins
\* them.  The index "" stands for every falsy index (None from clean_text).
MaxCalls == 3
ImportEntries == {"a", "a_1"}
ImportIndexes == {"", "1", "r2"}
RowIndexes == 0..(MaxCalls - 1)

\* generate_unique_sense_id(entry, index, row_index) on the set created:
\* the id returned and created_sense_ids after the call
GenerateUniqueSenseId(created, entry, index, row_index) ==
    LET base_sense_id == IF index # "" THEN entry \o "_" \o index ELSE entry \o "_0"
        unique_sense_id == base_sense_id \o "_r" \o ToString(row_index)
    IN  IF base_sense_id \notin created
        THEN [sense_id |-> base_sense_id, created |-> created \cup {base_sense_id}]
        ELSE [sense_id |-> unique_sense_id, created |-> created \cup {unique_sense_id}]

\* create_sense_node(tx, entry, definition, index, row_index), as far as the
\* importer's own state goes: the id it takes for the node
CreateSenseNode ==
    /\ Len(importer.calls) < MaxCalls
    /\ \E entry \in ImportEntries, index \in ImportIndexes, row_index \in RowIndexes :
          LET g == GenerateUniqueSenseId(importer.created_sense_ids, entry, index, row_index)
          IN  importer' = [created_sense_ids |-> g.created,
                           calls |-> Append(importer.calls,
                                            [entry |-> entry, index |-> index,
                                             row_index |-> row_index,
                                             sense_id |-> g.sense_id])]
    /\ UNCHANGED <<pc, service, op, candidates, attempt, calls, response, result, path,
                   raised, history, lookup, cleaner>>

\* the importer on its own
ImportSpec == Init /\ [][CreateSenseNode]_vars

\* the calls made so far have pairwise distinct row_index values
DistinctRowIndexes ==
    \A i, j \in 1..Len(importer.calls) :
        i < j => importer.calls[i].row_index # importer.calls[j].row_index

\* C27: after calls of generate_unique_sense_id with pairwise distinct
\* row_index values, no sense_id has been returned twice, and every returned
\* id is in created_sense_ids.
C27_SenseIdsUnique ==
    DistinctRowIndexes
    => /\ \A i, j \in 1..Len(importer.calls) :
              i < j => importer.calls[i].sense_id # importer.calls[j].sense_id
       /\ \A i \in 1..Len(importer.calls) :
              importer.calls[i].sense_id \in importer.created_sense_ids

\* ---------------------------------------------------------- FastDataCleaner

\* a row is the dict csv.DictReader gives for a file with the columns entry,
\* index and pos; Missing is the None it puts where a short row has no field
Missing == <<"None">>

MaxRows == 3
CsvRows ==
    [entry : {<<"a">>, <<"a", ".">>, <<SP>>, <<Q, SP, "a", Q>>},
     index : {<<"1">>, <<"2">>},
     pos : {<<"n">>}]
    \cup {[entry |-> <<"a">>, index |-> <<"1">>, pos |-> <<"v">>]}
    \cup [entry : {<<"a">>, <<SP>>}, index : {Missing}, pos : {Missing}]
CsvFiles == UNION {[1..n -> CsvRows] : n \in 0..MaxRows}

RECURSIVE CollapseWhitespace(_)
\* re.sub(r'\s+', ' ', text)
CollapseWhitespace(text) ==
    IF text = <<>> THEN <<>>
    ELSE IF Head(text) \in WS
    THEN <<SP>> \o CollapseWhitespace(Drop(text, SkipWs(text, 1) - 1))
    ELSE <<Head(text)>> \o CollapseWhitespace(Tail(text))

\* normalize_whitespace(text), the text returned
NormalizeWhitespace(text) ==
    IF text = Missing \/ text = <<>> THEN text ELSE Strip(CollapseWhitespace(text))

\* clean_trailing_punctuation(text), the text returned
CleanTrailingPunctuation(text) ==
    IF text = Missing \/ text = <<>> \/ Strip(text) = <<>> THEN text
    ELSE RStripIn(Strip(text), {",", ";", ":", "."})

\* clean_quotes(text), the text returned: text.strip('"\''); the replace calls
\* after it put a double quote for a double quote and rewrite a run of source
\* text that no field of these files holds
CleanQuotes(text) ==
    IF text = Missing \/ text = <<>> THEN text
    ELSE RStripIn(Drop(text, SkipIn(text, {Q, "'"}, 1) - 1), {Q, "'"})

\* clean_entry_field(entry), the text returned
CleanEntryField(entry) ==
    IF entry = Missing \/ entry = <<>> THEN entry
    ELSE CleanQuotes(NormalizeWhitespace(CleanTrailingPunctuation(entry)))

\* clean_row(row): the cleaned row and what the cleaning adds to the stats
CleanRow(row) ==
    LET e0 == NormalizeWhitespace(row.entry)
        e1 == CleanTrailingPunctuation(e0)
        e2 == NormalizeWhitespace(e1)
        WsBump(o, x) == IF o # x /\ x # <<>> THEN 1 ELSE 0
    IN  [row |-> [entry |-> CleanEntryField(e0),
                  index |-> NormalizeWhitespace(row.index),
                  pos |-> NormalizeWhitespace(row.pos)],
         cleaned_whitespace |->
             WsBump(row.entry, e0) + WsBump(e1, e2)
             + WsBump(row.index, NormalizeWhitespace(row.index))
             + WsBump(row.pos, NormalizeWhitespace(row.pos)),
         cleaned_trailing_punct |-> IF e0 # e1 THEN 1 ELSE 0,
         cleaned_quotes |-> IF e2 # CleanQuotes(e2) THEN 1 ELSE 0]

\* is_valid_row(row)
IsValidRow(row) == Strip(row.entry) # <<>>

\* IsDuplicateRow with the complete-duplicate check only
IsDuplicateRowComplete(c, row) ==
    [duplicate |-> row \in c.seen_rows, raised |-> FALSE,
     seen_rows |-> c.seen_rows \cup {row}, seen_entry_index |-> c.seen_entry_index]

\* is_duplicate_row(row) on the cleaner c: what it returns, whether
\* .strip() of a None index raised, and the two sets after it
IsDuplicateRow(c, row) ==
    LET entry_index_key == Strip(row.entry) \o <<"|", "|">> \o Strip(row.index)
    IN  IF row \in c.seen_rows
        THEN [duplicate |-> TRUE, raised |-> FALSE,
              seen_rows |-> c.seen_rows, seen_entry_index |-> c.seen_entry_index]
        ELSE IF row.index = Missing
        THEN [duplicate |-> FALSE, raised |-> TRUE,
              seen_rows |-> c.seen_rows \cup {row},
              seen_entry_index |-> c.seen_entry_index]
        ELSE [duplicate |-> entry_index_key \in c.seen_entry_index, raised |-> FALSE,
              seen_rows |-> c.seen_rows \cup {row},
              seen_entry_index |-> c.seen_entry_index \cup {entry_index_key}]

\* CleanStep dropping a duplicate without counting it
CleanStepUncounted(c, cl, d) ==
    LET counted == [c.stats EXCEPT
                        !.cleaned_whitespace = @ + cl.cleaned_whitespace,
                        !.cleaned_trailing_punct = @ + cl.cleaned_trailing_punct,
                        !.cleaned_quotes = @ + cl.cleaned_quotes]
    IN  IF ~IsValidRow(cl.row)
        THEN [c EXCEPT !.i = @ + 1,
                       !.stats = [counted EXCEPT !.removed_empty = @ + 1]]
        ELSE IF d.raised
        THEN [c EXCEPT !.pc = "failed", !.stats = counted,
                       !.seen_rows = d.seen_rows]
        ELSE IF d.duplicate
        THEN [c EXCEPT !.i = @ + 1, !.stats = counted,
                       !.seen_rows = d.seen_rows,
                       !.seen_entry_index = d.seen_entry_index]
        ELSE [c EXCEPT !.i = @ + 1, !.stats = counted,
                       !.seen_rows = d.seen_rows,
                       !.seen_entry_index = d.seen_entry_index,
                       !.cleaned_rows = Append(@, cl.row)]

\* one pass of the cleaning loop of run on the cleaner c: cl is clean_row of
\* the row, d is is_duplicate_row of the cleaned row
CleanStep(c, cl, d) ==
    LET counted == [c.stats EXCEPT
                        !.cleaned_whitespace = @ + cl.cleaned_whitespace,
                        !.cleaned_trailing_punct = @ + cl.cleaned_trailing_punct,
                        !.cleaned_quotes = @ + cl.cleaned_quotes]
    IN  IF ~IsValidRow(cl.row)
        THEN [c EXCEPT !.i = @ + 1,
                       !.stats = [counted EXCEPT !.removed_empty = @ + 1]]
        ELSE IF d.raised
        THEN [c EXCEPT !.pc = "failed", !.stats = counted,
                       !.seen_rows = d.seen_rows]
        ELSE IF d.duplicate
        THEN [c EXCEPT !.i = @ + 1,
                       !.stats = [counted EXCEPT !.removed_duplicates = @ + 1],
                       !.seen_rows = d.seen_rows,
                       !.seen_entry_index = d.seen_entry_index]
        ELSE [c EXCEPT !.i = @ + 1, !.stats = counted,
                       !.seen_rows = d.seen_rows,
                       !.seen_entry_index = d.seen_entry_index,
                       !.cleaned_rows = Append(@, cl.row)]

\* run reads the file: every row is counted and kept for the loop
ReadCsv ==
    /\ cleaner.pc = "new"
    /\ \E rows \in CsvFiles :
          cleaner' = [cleaner EXCEPT !.pc = "loop", !.rows = rows,
                                     !.stats.original_rows = Len(rows)]
    /\ UNCHANGED <<pc, service, op, candidates, attempt, calls, response, result, path,
                   raised, history, lookup, importer>>

\* run cleans the next row, and keeps it or counts it as removed
CleanLoopStep ==
    /\ cleaner.pc = "loop" /\ cleaner.i < Len(cleaner.rows)
    /\ cleaner' = CleanStep(cleaner, CleanRow(cleaner.rows[cleaner.i + 1]),
                            IsDuplicateRow(cleaner,
                                           CleanRow(cleaner.rows[cleaner.i + 1]).row))
    /\ UNCHANGED <<pc, service, op, candidates, attempt, calls, response, result, path,
                   raised, history, lookup, importer>>

\* the loop is over: run counts the rows kept, writes them and returns them
CleanLoopEnd ==
    /\ cleaner.pc = "loop" /\ cleaner.i = Len(cleaner.rows)
    /\ cleaner' = [cleaner EXCEPT !.pc = "done",
                                  !.stats.final_rows = Len(cleaner.cleaned_rows)]
    /\ UNCHANGED <<pc, service, op, candidates, attempt, calls, response, result, path,
                   raised, history, lookup, importer>>

\* the cleaner on its own
CleanerSpec == Init /\ [][ReadCsv \/ CleanLoopStep \/ CleanLoopEnd]_vars

\* the rows of the file the loop has gone through, as clean_row leaves them
CleanedInput == [n \in 1..cleaner.i |-> CleanRow(cleaner.rows[n]).row]

\* the entry and the index a row is keyed by
EntryIndexKey(row) == <<Strip(row.entry), Strip(row.index)>>

\* C28: the rows kept by the cleaning loop hold no two rows with the same
\* field values and no two rows with the same (entry, index) key, and every
\* kept row is the first of the cleaned input rows that has its key.
C28_KeptRowsDeduplicated ==
    cleaner.pc \in {"loop", "done"}
    => /\ \A k, l \in 1..Len(cleaner.cleaned_rows) :
              k < l => /\ cleaner.cleaned_rows[k] # cleaner.cleaned_rows[l]
                       /\ EntryIndexKey(cleaner.cleaned_rows[k])
                          # EntryIndexKey(cleaner.cleaned_rows[l])
       /\ \A k \in 1..Len(cleaner.cleaned_rows) :
              \E n \in 1..cleaner.i :
                  /\ CleanedInput[n] = cleaner.cleaned_rows[k]
                  /\ \A m \in 1..(n - 1) :
                         EntryIndexKey(CleanedInput[m])
                         # EntryIndexKey(cleaner.cleaned_rows[k])

\* run ended with one row kept out of three: the second was the same row
\* once cleaned, the third had the same key and another pos
C28_Witness ==
    /\ cleaner.pc = "done"
    /\ cleaner.rows = <<[entry |-> <<"a">>, index |-> <<"1">>, pos |-> <<"n">>],
                        [entry |-> <<"a", ".">>, index |-> <<"1">>, pos |-> <<"n">>],
                        [entry |-> <<"a">>, index |-> <<"1">>, pos |-> <<"v">>]>>
    /\ cleaner.cleaned_rows = <<[entry |-> <<"a">>, index |-> <<"1">>, pos |-> <<"n">>]>>

\* C29: after the cleaning loop every input row is counted once: as kept,
\* as removed for its empty entry, or as removed as a duplicate.
C29_RowsAccounted ==
    cleaner.pc = "done"
    => cleaner.stats.original_rows
       = cleaner.stats.final_rows + cleaner.stats.removed_empty
         + cleaner.stats.removed_duplicates

\* run ended with a row kept, a row removed as empty and a duplicate removed
C29_Witness ==
    /\ cleaner.pc = "done"
    /\ cleaner.stats.original_rows = 3
    /\ cleaner.stats.final_rows = 1
    /\ cleaner.stats.removed_empty = 1
    /\ cleaner.stats.removed_duplicates = 1

\* the keys the consumers of a ranking read
ResultKeys == {KSenseId, KDefinition, KConfidence, KReasoning}

\* C30: every element of every list disambiguate returns, from a model
\* response or on a fallback, of either service, is a dict with the four
\* keys sense_id, definition, confidence and reasoning.
C30_ResultWellFormed ==
    pc = "done" /\ op = "disambiguate"
    => /\ ~raised /\ result.t = "arr"
       /\ \A i \in 1..Len(result.v) :
              /\ result.v[i].t = "obj"
              /\ \A k \in ResultKeys : HasKey(result.v[i].v, k)

\* OllamaService returned the model's entry, which had no definition, with
\* the placeholder definition
C30_Witness ==
    /\ pc = "done" /\ service = "ollama" /\ op = "disambiguate" /\ path = "success"
    /\ Len(result.v) = 2
    /\ ~HasKey(JsonLoads(response.text).v[1].v, KDefinition)
    /\ DefinitionOf(result.v[1]) = Str(NoDefinition)

====
